---- MODULE Spec2Model ----
(***************************************************************************)
(* Lunara: recurrence resolution, rollover and expiry of reminder events.  *)
(*                                                                         *)
(* Instants are whole seconds since 2020-01-01T00:00:00Z.  A DateTime is   *)
(* a record [ts, zone]; an ISO text is a record [ts, off, ms] (the instant *)
(* it denotes, the offset it is written with, and whether it carries a     *)
(* milliseconds part), so that two texts are equal exactly when they are   *)
(* the same string.                                                        *)
(***************************************************************************)
EXTENDS Integers, Sequences, FiniteSets, TLC

VARIABLES
    now,        \* the clock (DateTime.now()), seconds since 2020-01-01Z
    db,         \* the events table of the store: id -> <<>> or <<row>>
    events,     \* per device: the React state `events`: id -> <<>> or <<event>>
    pc,         \* per device: "unloaded", "idle", or where its tick is suspended:
                \* "cleanup" (on the delete request), "awaiting" (on its writes)
    pending,    \* per device: the events the suspended tick works on (its closure's
                \* `events`, then its updatedEvents)
    deleting,   \* per device: the ids of the suspended tick's delete request
    inflight,   \* update requests issued and not yet answered by the store
    notifiedLog,\* per device: the keys of the reminders already notified
    console,    \* the messages written to the console
    call,       \* the last call of shouldUpdateRecurringEvent: its inputs and
                \* what it returned
    alarms,     \* per device: the callback invocations of its last pass of
                \* checkNotifications, and the alarms it has raised so far
    server,     \* the last pass of the server job: its inputs and what it did
    subs,       \* the subscriptions table of the store: rows (id, device_id)
    other       \* a second invocation of the server job, as `server`

vars == <<now, db, events, pc, pending, deleting, inflight, notifiedLog, console, call,
          alarms, server, subs, other>>

-----------------------------------------------------------------------------
(* Civil calendar (what luxon and Date.UTC compute).                       *)

MinuteSecs == 60
HourSecs == 60 * 60
DaySecs == 24 * 60 * 60

\* Days from 2020-01-01 to the civil date y-m-d (proleptic Gregorian).
DaysOfEra(era, yoe, doy) ==
    era * 146097 + yoe * 365 + (yoe \div 4) - (yoe \div 100) + doy - 719468 - 18262

DaysOfYear(yy, mp, d) ==
    DaysOfEra(yy \div 400, yy % 400, ((153 * mp + 2) \div 5) + d - 1)

DaysFromCivil(y, m, d) ==
    DaysOfYear(IF m <= 2 THEN y - 1 ELSE y, IF m > 2 THEN m - 3 ELSE m + 9, d)

\* The civil date of a day number, computed.
CivilOfMonth(y0, mp, d) ==
    [year |-> y0 + (IF mp >= 10 THEN 1 ELSE 0),
     month |-> IF mp < 10 THEN mp + 3 ELSE mp - 9,
     day |-> d]

CivilOfDoy(y0, doy, mp) == CivilOfMonth(y0, mp, doy - ((153 * mp + 2) \div 5) + 1)

CivilOfYoe(era, doe, yoe) ==
    CivilOfDoy(yoe + era * 400,
               doe - (365 * yoe + (yoe \div 4) - (yoe \div 100)),
               (5 * (doe - (365 * yoe + (yoe \div 4) - (yoe \div 100))) + 2) \div 153)

CivilOfEra(era, doe) ==
    CivilOfYoe(era, doe,
               (doe - (doe \div 1460) + (doe \div 36524) - (doe \div 146096)) \div 365)

CivilCalc(z0) ==
    CivilOfEra((z0 + 719468 + 18262) \div 146097, (z0 + 719468 + 18262) % 146097)

\* The years the model's instants lie in, and the civil date of each of their
\* days, computed once.
CalendarYears == 2017 .. 2029

CivilTable ==
    [z \in DaysFromCivil(2017, 1, 1) .. DaysFromCivil(2029, 12, 31) |-> CivilCalc(z)]

CivilFromDays(z) == CivilTable[z]

IsLeapYear(y) == (y % 4 = 0) /\ ((y % 100 # 0) \/ (y % 400 = 0))

\* luxon daysInMonth: the month may overflow 1..12.
DaysInMonthOf(modYear, modMonth) ==
    IF modMonth = 2 THEN (IF IsLeapYear(modYear) THEN 29 ELSE 28)
    ELSE IF modMonth \in {4, 6, 9, 11} THEN 30 ELSE 31

DaysInMonth(year, month) ==
    DaysInMonthOf(year + ((month - 1) \div 12), ((month - 1) % 12) + 1)

\* luxon objToLocalTS (Date.UTC): month and day overflow are carried.
ObjToLocalTS(c) ==
    (DaysFromCivil(c.year + ((c.month - 1) \div 12), ((c.month - 1) % 12) + 1, 1)
        + c.day - 1) * DaySecs
    + c.hour * HourSecs + c.minute * MinuteSecs + c.second

\* 0 = Sunday; 2020-01-01 was a Wednesday.
Weekday(days) == (days + 3) % 7

\* The n-th Sunday (n >= 1) of the month that starts on day number `first`.
NthSundayFrom(first, n) == first + ((7 - Weekday(first)) % 7) + 7 * (n - 1)

NthSunday(y, m, n) == NthSundayFrom(DaysFromCivil(y, m, 1), n)

-----------------------------------------------------------------------------
(* Time zones: the two zones the form offers (AddEventModal).              *)

TIMEZONE_CA == "America/Toronto"
TIMEZONE_CN == "Asia/Shanghai"
Zones == {TIMEZONE_CA, TIMEZONE_CN}

\* Toronto: EDT from the second Sunday of March 02:00 EST (07:00Z) to the first
\* Sunday of November 02:00 EDT (06:00Z).
DstTable ==
    [y \in CalendarYears |->
        [on  |-> NthSunday(y, 3, 2) * DaySecs + 7 * HourSecs,
         off |-> NthSunday(y, 11, 1) * DaySecs + 6 * HourSecs]]

OffsetIn(ts, dst) ==
    IF ts >= dst.on /\ ts < dst.off THEN -4 * HourSecs ELSE -5 * HourSecs

\* zone.offset(ts), in seconds.
Offset(zone, ts) ==
    IF zone = TIMEZONE_CN THEN 8 * HourSecs
    ELSE OffsetIn(ts, DstTable[CivilFromDays(ts \div DaySecs).year])

\* luxon fixOffset: the instant of a local time, given a first guess o of the
\* offset; o2 and o3 are the zone's offsets at the first and second guess.
FixOffsetThird(localTS, o2, o3) ==
    IF o2 = o3 THEN localTS - o2
    ELSE localTS - (IF o2 < o3 THEN o2 ELSE o3)

FixOffsetSecond(localTS, o, zone, o2) ==
    IF o = o2 THEN localTS - o
    ELSE FixOffsetThird(localTS, o2, Offset(zone, localTS - o2))

FixOffset(localTS, o, zone) ==
    FixOffsetSecond(localTS, o, zone, Offset(zone, localTS - o))

\* The local civil fields of a DateTime (luxon's inst.c).
FieldsOf(date, sod) ==
    [year |-> date.year, month |-> date.month, day |-> date.day,
     hour |-> sod \div HourSecs, minute |-> (sod % HourSecs) \div MinuteSecs,
     second |-> sod % MinuteSecs]

FieldsAt(loc) == FieldsOf(CivilFromDays(loc \div DaySecs), loc % DaySecs)

Fields(dt) == FieldsAt(dt.ts + Offset(dt.zone, dt.ts))

\* DateTime.fromObject(obj, {zone}): the first guess is the zone's offset now.
FromObject(c, zone, tsNow) ==
    [ts |-> FixOffset(ObjToLocalTS(c), Offset(zone, tsNow), zone), zone |-> zone]

\* dt.plus(dur) (luxon adjustTime): years, months, weeks and days move the local
\* calendar fields c of dt, hours are added to the instant.
Dur(years, months, weeks, days, hours) ==
    [years |-> years, months |-> months, weeks |-> weeks, days |-> days, hours |-> hours]

Min(a, b) == IF a < b THEN a ELSE b

AdjustTime(dt, dur, c) ==
    [ts |-> FixOffset(
              ObjToLocalTS(
                [c EXCEPT !.year = c.year + dur.years,
                          !.month = c.month + dur.months,
                          !.day = Min(c.day, DaysInMonth(c.year + dur.years,
                                                         c.month + dur.months))
                                  + dur.days + dur.weeks * 7]),
              Offset(dt.zone, dt.ts), dt.zone)
            + dur.hours * HourSecs,
     zone |-> dt.zone]

Plus(dt, dur) == AdjustTime(dt, dur, Fields(dt))

\* ISO texts.  DateTime.fromISO(text, {zone}) and dt.toISO().
FromISO(text, zone) == [ts |-> text.ts, zone |-> zone]
ToISO(dt) == [ts |-> dt.ts, off |-> Offset(dt.zone, dt.ts), ms |-> TRUE]

-----------------------------------------------------------------------------
(* The lunar calendar (lunar-javascript), lunar years 2023 to 2028.        *)

\* The day of the lunar new year, the lengths of the twelve months, and the
\* leap month (0: none; it has 29 days in each of these years).
LunarYearInfo(y) ==
    CASE y = 2023 -> [newYear |-> DaysFromCivil(2023, 1, 22), leap |-> 2,
                      days |-> <<29, 30, 29, 30, 30, 29, 30, 30, 29, 30, 29, 30>>]
      [] y = 2024 -> [newYear |-> DaysFromCivil(2024, 2, 10), leap |-> 0,
                      days |-> <<29, 30, 29, 29, 30, 29, 30, 30, 29, 30, 30, 29>>]
      [] y = 2025 -> [newYear |-> DaysFromCivil(2025, 1, 29), leap |-> 6,
                      days |-> <<30, 29, 30, 29, 29, 30, 30, 29, 30, 30, 30, 29>>]
      [] y = 2026 -> [newYear |-> DaysFromCivil(2026, 2, 17), leap |-> 0,
                      days |-> <<30, 29, 30, 29, 29, 30, 29, 29, 30, 30, 30, 29>>]
      [] y = 2027 -> [newYear |-> DaysFromCivil(2027, 2, 6), leap |-> 0,
                      days |-> <<30, 30, 29, 30, 29, 29, 30, 29, 29, 30, 30, 29>>]
      [] y = 2028 -> [newYear |-> DaysFromCivil(2028, 1, 26), leap |-> 5,
                      days |-> <<30, 30, 30, 29, 30, 29, 30, 29, 29, 30, 30, 29>>]

LunarTable == [y \in 2023 .. 2028 |-> LunarYearInfo(y)]

\* Lunar.fromYmd(y, month, day) throws for a month or a day the year lacks.
LunarThrows(y, month, day) ==
    \/ month < 1 \/ month > 12
    \/ day < 1
    \/ day > LunarTable[y].days[month]

RECURSIVE DaysBeforeMonth(_, _)
DaysBeforeMonth(info, month) ==
    IF month = 1 THEN 0
    ELSE DaysBeforeMonth(info, month - 1) + info.days[month - 1]
         + (IF info.leap = month - 1 THEN 29 ELSE 0)

\* Lunar.fromYmd(y, month, day).getSolar(), as a day number.
LunarToSolar(y, month, day) ==
    LunarTable[y].newYear + DaysBeforeMonth(LunarTable[y], month) + day - 1

-----------------------------------------------------------------------------
(* The recurrence resolver (services/timeService.ts).                      *)

\* An absent or null property is the empty sequence, a present one <<value>>.
None == <<>>
Some(v) == <<v>>

SafetyCap == 2000
BufferMinutes == 1
LunarTrials == 3

Units == {"hour", "day", "week", "month", "year"}

\* rule.interval && rule.unit
Truthy(rule) ==
    /\ rule.interval # None /\ rule.interval[1] # 0
    /\ rule.unit # None /\ rule.unit[1] # ""

\* The switch of the loop returns start: a custom rule with a field missing,
\* or a type with no case.
ReturnsStart(rule) ==
    \/ rule.type = "custom" /\ ~Truthy(rule)
    \/ rule.type \notin {"daily", "weekly", "monthly", "yearly_solar", "custom"}

\* The duration the switch adds to the candidate; a custom unit with no case
\* adds nothing.
CustomDur(amount, unit) ==
    CASE unit = "hour"  -> Dur(0, 0, 0, 0, amount)
      [] unit = "day"   -> Dur(0, 0, 0, amount, 0)
      [] unit = "week"  -> Dur(0, 0, amount, 0, 0)
      [] unit = "month" -> Dur(0, amount, 0, 0, 0)
      [] unit = "year"  -> Dur(amount, 0, 0, 0, 0)
      [] OTHER          -> Dur(0, 0, 0, 0, 0)

StepDur(rule) ==
    CASE rule.type = "daily"        -> Dur(0, 0, 0, 1, 0)
      [] rule.type = "weekly"       -> Dur(0, 0, 1, 0, 0)
      [] rule.type = "monthly"      -> Dur(0, 1, 0, 0, 0)
      [] rule.type = "yearly_solar" -> Dur(1, 0, 0, 0, 0)
      [] rule.type = "custom"       -> CustomDur(rule.interval[1], rule.unit[1])

\* The body of the stepping loop: the next candidate, or `returned` when the
\* switch returns start.
LoopBody(s, rule, start) ==
    IF ReturnsStart(rule)
    THEN [cand |-> start, safetyCounter |-> s.safetyCounter + 1, returned |-> TRUE]
    ELSE IF rule.type = "custom" /\ rule.unit[1] \notin Units
         THEN [s EXCEPT !.safetyCounter = s.safetyCounter + 1]
         ELSE [cand |-> Plus(s.cand, StepDur(rule)),
               safetyCounter |-> s.safetyCounter + 1, returned |-> FALSE]

\* while (currentCandidate < now && safetyCounter < 2000)
LoopGoOffByOne(s, nowTs) ==
    ~s.returned /\ s.cand.ts < nowTs /\ s.safetyCounter <= SafetyCap

LoopGoStrictlyAfter(s, nowTs) ==
    ~s.returned /\ s.cand.ts <= nowTs /\ s.safetyCounter < SafetyCap

LoopGo(s, nowTs) ==
    ~s.returned /\ s.cand.ts < nowTs /\ s.safetyCounter < SafetyCap

\* The loop, run in blocks of iterations (the guard is tested before every one).
RECURSIVE LoopRun(_, _, _, _, _)
LoopRun(s, rule, start, nowTs, k) ==
    IF k = 0 \/ ~LoopGo(s, nowTs) THEN s
    ELSE LoopRun(LoopBody(s, rule, start), rule, start, nowTs, k - 1)

RECURSIVE LoopBlocks(_, _, _, _, _)
LoopBlocks(s, rule, start, nowTs, k) ==
    IF k = 0 \/ ~LoopGo(s, nowTs) THEN s
    ELSE LoopBlocks(LoopRun(s, rule, start, nowTs, 50), rule, start, nowTs, k - 1)

\* What the resolver returns: the DateTime (dt) and, beside it, how the call
\* went: the final safetyCounter (iters), the path taken (via), the trial year.
Resolved(dt, iters, via, trial) ==
    [dt |-> dt, iters |-> iters, via |-> via, trial |-> trial]

\* The candidate of a trial year: the solar date at the start's hour and minute.
LunarCandidate(solar, startFields, timezone, nowTs) ==
    FromObject([year |-> solar.year, month |-> solar.month, day |-> solar.day,
                hour |-> startFields.hour, minute |-> startFields.minute,
                second |-> 0], timezone, nowTs)

\* A search that gives up at the first year whose date does not exist.
RECURSIVE LunarSearchAbort(_, _, _, _, _, _, _)
LunarSearchAbort(lunarData, originalStart, startFields, nowTs, timezone, searchYear, i) ==
    IF i >= LunarTrials \/ LunarThrows(searchYear + i, lunarData.month, lunarData.day)
    THEN Resolved(originalStart, 0, "lunar_fallback", i)
    ELSE IF LunarCandidate(CivilFromDays(LunarToSolar(searchYear + i, lunarData.month,
                                                      lunarData.day)),
                           startFields, timezone, nowTs).ts > nowTs
         THEN Resolved(LunarCandidate(CivilFromDays(LunarToSolar(searchYear + i,
                                          lunarData.month, lunarData.day)),
                                      startFields, timezone, nowTs), 0, "lunar", i)
         ELSE LunarSearchAbort(lunarData, originalStart, startFields, nowTs, timezone,
                               searchYear, i + 1)

\* The trial years of the lunar search: the first candidate after now, if any.
RECURSIVE LunarSearch(_, _, _, _, _, _, _)
LunarTrial(lunarData, originalStart, startFields, nowTs, timezone, searchYear, i, candidate) ==
    IF candidate.ts > nowTs
    THEN Resolved(candidate, 0, "lunar", i)
    ELSE LunarSearch(lunarData, originalStart, startFields, nowTs, timezone, searchYear, i + 1)

LunarSearch(lunarData, originalStart, startFields, nowTs, timezone, searchYear, i) ==
    IF i >= LunarTrials
    THEN Resolved(originalStart, 0, "lunar_fallback", i)
    ELSE IF LunarThrows(searchYear + i, lunarData.month, lunarData.day)
         THEN LunarSearch(lunarData, originalStart, startFields, nowTs, timezone,
                          searchYear, i + 1)
         ELSE LunarTrial(lunarData, originalStart, startFields, nowTs, timezone,
                         searchYear, i,
                         LunarCandidate(
                            CivilFromDays(LunarToSolar(searchYear + i, lunarData.month,
                                                       lunarData.day)),
                            startFields, timezone, nowTs))

calculateNextLunarDate(lunarData, originalStart, nowTs, timezone) ==
    LunarSearch(lunarData, originalStart, Fields(originalStart), nowTs, timezone,
                Fields([ts |-> nowTs, zone |-> timezone]).year, 0)

\* The resolver.
LoopResult(s) ==
    Resolved(s.cand, s.safetyCounter, IF s.returned THEN "returned_start" ELSE "loop", 0)

calculateRecurringDate(start, rule, nowTs, timezone) ==
    IF rule.type = "yearly_lunar" /\ rule.lunarData # None
    THEN calculateNextLunarDate(rule.lunarData[1], start, nowTs, timezone)
    ELSE LoopResult(LoopBlocks([cand |-> start, safetyCounter |-> 0, returned |-> FALSE],
                               rule, start, nowTs, (SafetyCap \div 50) + 2))

\* A resolver that keeps the occurrence of its previous call on the event.
TargetOfCached(event, nowTs, startDt) ==
    IF event.id \in DOMAIN call /\ call[event.id].phase = "done"
    THEN Resolved([ts |-> call[event.id].occ.date, zone |-> event.timezone], 0, "cached", 0)
    ELSE IF event.recurrenceRule = None \/ event.recurrenceRule[1].type = "none"
         THEN Resolved(startDt, 0, "none", 0)
         ELSE IF startDt.ts < nowTs
              THEN calculateRecurringDate(startDt, event.recurrenceRule[1], nowTs,
                                          event.timezone)
              ELSE Resolved(startDt, 0, "future", 0)

\* getNextOccurrence: the target DateTime and its ISO text.
TargetOf(event, nowTs, startDt) ==
    IF event.recurrenceRule = None \/ event.recurrenceRule[1].type = "none"
    THEN Resolved(startDt, 0, "none", 0)
    ELSE IF startDt.ts < nowTs
         THEN calculateRecurringDate(startDt, event.recurrenceRule[1], nowTs, event.timezone)
         ELSE Resolved(startDt, 0, "future", 0)

NextOccurrence(event, r) ==
    [date |-> r.dt.ts, isoString |-> ToISO(r.dt), originalTimezone |-> event.timezone,
     iters |-> r.iters, via |-> r.via, trial |-> r.trial]

getNextOccurrence(event, nowTs) ==
    NextOccurrence(event, TargetOf(event, nowTs, FromISO(event.startAt, event.timezone)))

\* nextOccurrence.isoString !== event.startAt: a comparison of the two texts.
IsoDiffers(iso, startAt) == iso # startAt

\* A decision that takes an advance the event already carries for done.
ShouldUpdateOnce(event, nowTs, nextOccurrence) ==
    IF event.recurrenceRule = None \/ event.recurrenceRule[1].type = "none" THEN None
    ELSE IF event.nextAlertAt = Some(nextOccurrence.isoString) THEN None
    ELSE IF FromISO(event.startAt, event.timezone).ts + BufferMinutes * MinuteSecs < nowTs
         THEN IF IsoDiffers(nextOccurrence.isoString, event.startAt)
              THEN Some(nextOccurrence.isoString)
              ELSE None
         ELSE None

\* The decision of shouldUpdateRecurringEvent, given the occurrence that
\* getNextOccurrence returns for the event.
ShouldUpdateFrom(event, nowTs, nextOccurrence) ==
    IF event.recurrenceRule = None \/ event.recurrenceRule[1].type = "none" THEN None
    ELSE IF FromISO(event.startAt, event.timezone).ts + BufferMinutes * MinuteSecs < nowTs
         THEN IF IsoDiffers(nextOccurrence.isoString, event.startAt)
              THEN Some(nextOccurrence.isoString)
              ELSE None
         ELSE None

\* shouldUpdateRecurringEvent: None (null) or Some(the new ISO text).
shouldUpdateRecurringEvent(event, nowTs) ==
    ShouldUpdateFrom(event, nowTs, getNextOccurrence(event, nowTs))

-----------------------------------------------------------------------------
(* Events and the inputs of the resolver.                                  *)

\* A civil time of a zone as a DateTime.
At(y, m, d, h, mi, s, zone) ==
    FromObject([year |-> y, month |-> m, day |-> d, hour |-> h, minute |-> mi,
                second |-> s], zone, 0)

\* The text the form stores (dt.toISO(), AddEventModal) and the text the store
\* returns for a timestamptz column (UTC, no milliseconds).
FormText(dt) == ToISO(dt)
DbText(ts) == [ts |-> ts, off |-> 0, ms |-> FALSE]

Rule(type, interval, unit, lunarData) ==
    [type |-> type, interval |-> interval, unit |-> unit, lunarData |-> lunarData]

LunarData(month, day) == Some([month |-> month, day |-> day])

Event(id, startAt, timezone, rule, reminders) ==
    [id |-> id, title |-> id, startAt |-> startAt, timezone |-> timezone,
     recurrenceRule |-> rule, reminders |-> reminders, nextAlertAt |-> None,
     deviceId |-> "dev1", updatedAt |-> 0]

SolarRules ==
    { Rule(t, None, None, None) : t \in {"daily", "weekly", "monthly", "yearly_solar"} }

PositiveCustomRules ==
    { Rule("custom", Some(3), Some("day"), None),
      Rule("custom", Some(2), Some("week"), None),
      Rule("custom", Some(1), Some("month"), None),
      Rule("custom", Some(1), Some("year"), None) }

\* Custom rules the fallback policy is about, and rule objects of a shape the
\* form does not produce.
FallbackCustomRules ==
    { Rule("custom", None, Some("day"), None),
      Rule("custom", Some(3), None, None),
      Rule("custom", None, None, None),
      Rule("custom", Some(0), Some("day"), None) }

OddRules ==
    { Rule("hourly", None, None, None),
      Rule("yearly_lunar", None, None, None) }

LunarRules ==
    { Rule("yearly_lunar", None, None, LunarData(12, 15)),
      Rule("yearly_lunar", None, None, LunarData(12, 30)),
      Rule("yearly_lunar", None, None, LunarData(8, 15)),
      Rule("yearly_lunar", None, None, LunarData(1, 1)),
      Rule("yearly_lunar", None, None, LunarData(1, 30)),
      Rule("yearly_lunar", None, None, LunarData(13, 1)) }

NoRules == { None, Some(Rule("none", None, None, None)) }

ResolveRules ==
    NoRules \cup { Some(r) : r \in SolarRules \cup PositiveCustomRules
                              \cup FallbackCustomRules \cup OddRules \cup LunarRules }

\* Anchors: a start time with its zone, in the text of the form or of the store.
ResolveAnchors ==
    { [startAt |-> FormText(At(2024, 3, 1, 9, 0, 0, TIMEZONE_CA)), timezone |-> TIMEZONE_CA],
      [startAt |-> DbText(At(2024, 3, 1, 9, 0, 0, TIMEZONE_CA).ts), timezone |-> TIMEZONE_CA],
      [startAt |-> FormText(At(2024, 1, 1, 0, 0, 0, TIMEZONE_CA)), timezone |-> TIMEZONE_CA],
      [startAt |-> FormText(At(2024, 1, 31, 9, 0, 0, TIMEZONE_CN)), timezone |-> TIMEZONE_CN],
      [startAt |-> DbText(At(2024, 2, 9, 9, 0, 0, TIMEZONE_CN).ts), timezone |-> TIMEZONE_CN] }

\* Reference instants.
ResolveInstants ==
    { At(2024, 1, 10, 0, 0, 0, TIMEZONE_CA).ts,
      At(2024, 3, 1, 9, 0, 0, TIMEZONE_CA).ts,
      At(2024, 3, 1, 9, 1, 0, TIMEZONE_CA).ts,
      At(2024, 3, 1, 9, 1, 1, TIMEZONE_CA).ts,
      At(2024, 3, 5, 10, 0, 0, TIMEZONE_CA).ts,
      At(2024, 3, 6, 9, 0, 0, TIMEZONE_CA).ts,
      At(2024, 9, 17, 9, 0, 0, TIMEZONE_CN).ts,
      At(2025, 1, 5, 12, 0, 0, TIMEZONE_CN).ts,
      At(2025, 3, 31, 9, 0, 5, TIMEZONE_CN).ts,
      At(2026, 2, 20, 12, 0, 0, TIMEZONE_CA).ts }

\* Rules whose stepping is long or runs into the cap, each with a few anchors
\* and reference instants.
LongInputs ==
    LET form == [startAt |-> FormText(At(2024, 3, 1, 9, 0, 0, TIMEZONE_CA)), timezone |-> TIMEZONE_CA]
        dbt  == [startAt |-> DbText(At(2024, 3, 1, 9, 0, 0, TIMEZONE_CA).ts), timezone |-> TIMEZONE_CA]
        input(a, r, t) == [anchor |-> a, rule |-> Some(r), at |-> t]
    IN  { input(form, Rule("custom", Some(-1), Some("day"), None), At(2024, 3, 1, 8, 0, 0, TIMEZONE_CA).ts),
          input(form, Rule("custom", Some(-1), Some("day"), None), At(2024, 3, 1, 9, 1, 1, TIMEZONE_CA).ts),
          input(dbt,  Rule("custom", Some(-2), Some("hour"), None), At(2024, 3, 5, 10, 0, 0, TIMEZONE_CA).ts),
          input(form, Rule("custom", Some(1), Some("minute"), None), At(2024, 3, 1, 9, 1, 1, TIMEZONE_CA).ts),
          input(dbt,  Rule("custom", Some(1), Some("minute"), None), At(2024, 3, 5, 10, 0, 0, TIMEZONE_CA).ts),
          input(form, Rule("custom", Some(12), Some("hour"), None), At(2024, 3, 5, 10, 0, 0, TIMEZONE_CA).ts),
          input(form, Rule("custom", Some(1), Some("hour"), None), At(2024, 3, 5, 10, 0, 0, TIMEZONE_CA).ts),
          input(form, Rule("custom", Some(1), Some("hour"), None), At(2024, 5, 23, 17, 0, 0, TIMEZONE_CA).ts),
          input(form, Rule("custom", Some(1), Some("hour"), None), At(2024, 5, 23, 18, 0, 0, TIMEZONE_CA).ts),
          input(form, Rule("custom", Some(1), Some("hour"), None), At(2024, 5, 23, 18, 0, 1, TIMEZONE_CA).ts),
          input(dbt,  Rule("custom", Some(1), Some("hour"), None), At(2025, 1, 5, 12, 0, 0, TIMEZONE_CN).ts) }

ResolveInputs ==
    { [anchor |-> a, rule |-> r, at |-> t] :
        a \in ResolveAnchors, r \in ResolveRules, t \in ResolveInstants }
    \cup LongInputs

Devices == {"dev1", "dev2"}
Ids == {"e1", "e2"}

\* One call of getNextOccurrence and shouldUpdateRecurringEvent on an event.
CallWith(dev, event, nowTs, nextOccurrence) ==
    [phase |-> "done", dev |-> dev, event |-> event, at |-> nowTs,
     occ |-> nextOccurrence,
     update |-> ShouldUpdateFrom(event, nowTs, nextOccurrence)]

CallOf(dev, event, nowTs) == CallWith(dev, event, nowTs, getNextOccurrence(event, nowTs))

NoCall == [phase |-> "none"]
NoCalls == [i \in Ids |-> NoCall]

\* No pass of checkNotifications yet, no alarm raised; no pass of the server job.
NoAlarms == [d \in Devices |-> [last |-> {}, raised |-> {}]]
NoPass == [phase |-> "none"]

\* The subscriptions table with no row.
NoSubs == {}

-----------------------------------------------------------------------------
(* The resolver on its own: an event and a reference instant are drawn, and *)
(* the resolver is applied to them.                                         *)

InitResolve ==
    /\ \E inp \in ResolveInputs :
          /\ now = inp.at
          /\ call = [NoCalls EXCEPT !["e1"] =
                        [phase |-> "input",
                         event |-> Event("e1", inp.anchor.startAt, inp.anchor.timezone,
                                         inp.rule, <<>>)]]
    /\ db = [i \in Ids |-> None]
    /\ events = [d \in Devices |-> [i \in Ids |-> None]]
    /\ pc = [d \in Devices |-> "unloaded"]
    /\ pending = [d \in Devices |-> [i \in Ids |-> None]]
    /\ deleting = [d \in Devices |-> {}]
    /\ inflight = {}
    /\ notifiedLog = [d \in Devices |-> {}]
    /\ console = {}
    /\ alarms = NoAlarms
    /\ server = NoPass
    /\ subs = NoSubs
    /\ other = NoPass

\* The resolver logs nothing and touches no state.
Resolve ==
    /\ call["e1"].phase = "input"
    /\ call' = [call EXCEPT !["e1"] = CallOf("dev1", call["e1"].event, now)]
    /\ UNCHANGED <<now, db, events, pc, pending, deleting, inflight, notifiedLog, alarms, server, subs, other, console>>

NextResolve == Resolve

SpecResolve == InitResolve /\ [][NextResolve]_vars

-----------------------------------------------------------------------------
(* The resolver over the calendar: anchors before a daylight-saving         *)
(* transition of Toronto at an hour the transition skips or repeats, and    *)
(* anchors on the last day of a month.                                      *)

CalendarAnchors ==
    { [startAt |-> FormText(At(2024, 3, 1, 2, 30, 0, TIMEZONE_CA)), timezone |-> TIMEZONE_CA],
      [startAt |-> FormText(At(2024, 3, 3, 2, 30, 0, TIMEZONE_CA)), timezone |-> TIMEZONE_CA],
      [startAt |-> FormText(At(2024, 2, 10, 2, 30, 0, TIMEZONE_CA)), timezone |-> TIMEZONE_CA],
      [startAt |-> FormText(At(2023, 3, 10, 2, 30, 0, TIMEZONE_CA)), timezone |-> TIMEZONE_CA],
      [startAt |-> FormText(At(2024, 3, 1, 9, 0, 0, TIMEZONE_CA)), timezone |-> TIMEZONE_CA],
      [startAt |-> FormText(At(2024, 10, 20, 1, 30, 0, TIMEZONE_CA)), timezone |-> TIMEZONE_CA],
      [startAt |-> DbText(At(2024, 1, 31, 9, 0, 0, TIMEZONE_CA).ts), timezone |-> TIMEZONE_CA],
      [startAt |-> FormText(At(2024, 1, 31, 9, 0, 0, TIMEZONE_CN)), timezone |-> TIMEZONE_CN] }

CalendarRules ==
    SolarRules \cup { Rule("custom", Some(1), Some("month"), None) }

CalendarInstants ==
    { At(2024, 2, 15, 0, 0, 0, TIMEZONE_CA).ts,
      At(2024, 3, 5, 0, 0, 0, TIMEZONE_CA).ts,
      At(2024, 3, 12, 0, 0, 0, TIMEZONE_CA).ts,
      At(2024, 4, 15, 0, 0, 0, TIMEZONE_CA).ts,
      At(2024, 11, 5, 0, 0, 0, TIMEZONE_CA).ts,
      At(2025, 3, 20, 0, 0, 0, TIMEZONE_CA).ts }

CalendarInputs ==
    { [anchor |-> a, rule |-> Some(r), at |-> t] :
        a \in CalendarAnchors, r \in CalendarRules, t \in CalendarInstants }

InitCalendar ==
    /\ \E inp \in CalendarInputs :
          /\ now = inp.at
          /\ call = [NoCalls EXCEPT !["e1"] =
                        [phase |-> "input",
                         event |-> Event("e1", inp.anchor.startAt, inp.anchor.timezone,
                                         inp.rule, <<>>)]]
    /\ db = [i \in Ids |-> None]
    /\ events = [d \in Devices |-> [i \in Ids |-> None]]
    /\ pc = [d \in Devices |-> "unloaded"]
    /\ pending = [d \in Devices |-> [i \in Ids |-> None]]
    /\ deleting = [d \in Devices |-> {}]
    /\ inflight = {}
    /\ notifiedLog = [d \in Devices |-> {}]
    /\ console = {}
    /\ alarms = NoAlarms
    /\ server = NoPass
    /\ subs = NoSubs
    /\ other = NoPass

NextCalendar == Resolve

SpecCalendar == InitCalendar /\ [][NextCalendar]_vars

-----------------------------------------------------------------------------
(* The store (services/storage.ts) and the client loop (App.tsx).          *)

CleanupHours == 2
NotifyWindowSecs == 15
MaxDays == 1

\* The anchor of the events of the store, and the instants the clock takes.
AnchorTs == At(2024, 3, 1, 9, 0, 0, TIMEZONE_CA).ts

ClockInstants ==
    { AnchorTs - HourSecs, AnchorTs + 30, AnchorTs + BufferMinutes * MinuteSecs }
    \cup { AnchorTs + k * DaySecs + 61 : k \in 0 .. MaxDays }
    \cup { AnchorTs + k * DaySecs + 66 : k \in 0 .. MaxDays }

\* mapToDb: the payload of an insert or update; updated_at is not part of it.
mapToDb(event) ==
    [id |-> event.id, title |-> event.title, start_at |-> event.startAt,
     timezone |-> event.timezone, recurrence_rule |-> event.recurrenceRule,
     reminders |-> event.reminders, next_alert_at |-> event.nextAlertAt,
     device_id |-> event.deviceId]

\* mapFromDb: timezone and reminders have defaults.
mapFromDb(row) ==
    [id |-> row.id, title |-> row.title, startAt |-> row.start_at,
     timezone |-> IF row.timezone = "" THEN TIMEZONE_CA ELSE row.timezone,
     recurrenceRule |-> row.recurrence_rule, reminders |-> row.reminders,
     nextAlertAt |-> row.next_alert_at, deviceId |-> row.device_id,
     updatedAt |-> row.updated_at]

\* A timestamptz column keeps the instant of the text it is given and is read
\* back as a UTC text.
Timestamptz(text) == DbText(text.ts)

\* The row the table holds once a payload is written to it.
RowOf(payload, updated_at) ==
    [id |-> payload.id, title |-> payload.title,
     start_at |-> Timestamptz(payload.start_at),
     timezone |-> payload.timezone, recurrence_rule |-> payload.recurrence_rule,
     reminders |-> payload.reminders,
     next_alert_at |-> IF payload.next_alert_at = None THEN None
                       ELSE Some(Timestamptz(payload.next_alert_at[1])),
     device_id |-> payload.device_id, updated_at |-> updated_at]

\* createEvent: the row of a new event.
createEvent(event) == RowOf(mapToDb(event), 0)

StoredEvent(id, rule, reminders) ==
    createEvent(Event(id, FormText(At(2024, 3, 1, 9, 0, 0, TIMEZONE_CA)), TIMEZONE_CA,
                      rule, reminders))

\* The contents of the events table at the start.
StoreRules ==
    { Some(Rule("daily", None, None, None)),
      Some(Rule("custom", Some(12), Some("hour"), None)),
      Some(Rule("custom", Some(3), None, None)),
      Some(Rule("hourly", None, None, None)) }

Stores ==
    { [i \in Ids |-> IF i = "e1" THEN Some(StoredEvent("e1", r, <<>>)) ELSE None] :
        r \in StoreRules }
    \cup { [i \in Ids |-> IF i = "e1"
                          THEN Some(StoredEvent("e1", Some(Rule("daily", None, None, None)), <<0>>))
                          ELSE Some(StoredEvent("e2", None, <<>>))] }

\* fetchEvents: every row of the table.
fetchEvents == [i \in Ids |-> IF db[i] = None THEN None ELSE Some(mapFromDb(db[i][1]))]

IsOneTime(event) ==
    event.recurrenceRule = None \/ event.recurrenceRule[1].type = "none"

\* cleanupPastEvents: the ids of the one-time events more than two hours past.
ExpiredIds(evs, nowTs) ==
    { i \in Ids : /\ evs[i] # None
                  /\ IsOneTime(evs[i][1])
                  /\ FromISO(evs[i][1].startAt, evs[i][1].timezone).ts
                       + CleanupHours * HourSecs < nowTs }

Without(evs, ids) == [i \in Ids |-> IF i \in ids THEN None ELSE evs[i]]

Abs(x) == IF x < 0 THEN -x ELSE x

Range(seq) == { seq[k] : k \in 1 .. Len(seq) }

\* A matcher whose window is open towards the past: the difference is taken
\* without its absolute value.
NotifyCallsOneSided(id, event, nowTs, occ) ==
    { [id |-> id, k |-> k, minutesBefore |-> event.reminders[k], occ |-> occ] :
        k \in { j \in 1 .. Len(event.reminders) :
                  nowTs - (occ - event.reminders[j] * MinuteSecs) < NotifyWindowSecs } }

\* checkNotifications: the invocations of the callback, one for each entry k
\* of the reminders of an event that is within the window of `now`.
NotifyCalls(id, event, nowTs, occ) ==
    { [id |-> id, k |-> k, minutesBefore |-> event.reminders[k], occ |-> occ] :
        k \in { j \in 1 .. Len(event.reminders) :
                  Abs(nowTs - (occ - event.reminders[j] * MinuteSecs)) < NotifyWindowSecs } }

checkNotifications(evs, nowTs) ==
    UNION { NotifyCalls(i, evs[i][1], nowTs, getNextOccurrence(evs[i][1], nowTs).date) :
              i \in { j \in Ids : evs[j] # None } }

\* The key of the notified log: `${event.id}-${new Date().getMinutes()}`.
NotifyKey(id, nowTs) == <<id, (nowTs % HourSecs) \div MinuteSecs>>

\* The callback of the main loop on the invocations of one pass: each invocation
\* whose key is not in the log of the tick's closure raises the alarm (in-app
\* and system notification) and adds its key.
Notify(d, calls) ==
    /\ notifiedLog' = [notifiedLog EXCEPT
                         ![d] = @ \cup { NotifyKey(c.id, now) : c \in calls }]
    /\ alarms' = [alarms EXCEPT
                    ![d] = [last |-> calls,
                            raised |-> @.raised \cup
                                { [id |-> c.id, k |-> c.k, minutesBefore |-> c.minutesBefore,
                                   occ |-> c.occ, at |-> now] :
                                    c \in { x \in calls :
                                              NotifyKey(x.id, now) \notin notifiedLog[d] } }]]

\* Step 3 of the tick on the events `evs` of its closure: the calls of
\* shouldUpdateRecurringEvent, the updated events and the writes issued.
RolloverCalls(d, evs, deletedIds) ==
    [i \in Ids |-> IF evs[i] = None \/ i \in deletedIds THEN NoCall
                   ELSE CallOf(d, evs[i][1], now)]

UpdatedEvents(evs, calls) ==
    [i \in Ids |->
        IF calls[i].phase = "done" /\ calls[i].update # None
        THEN Some([evs[i][1] EXCEPT !.nextAlertAt = calls[i].update, !.updatedAt = now])
        ELSE evs[i]]

Writes(d, updated, calls) ==
    { [dev |-> d, event |-> updated[i][1]] :
        i \in { j \in Ids : calls[j].phase = "done" /\ calls[j].update # None } }

RolloverWrites(d, updated, calls, writes) ==
    /\ call' = calls
    /\ inflight' = inflight \cup writes
    /\ pending' = [pending EXCEPT ![d] = updated]
    /\ pc' = [pc EXCEPT ![d] = IF writes = {} THEN "idle" ELSE "awaiting"]

RolloverCalled(d, evs, calls, updated) ==
    \E writes \in {Writes(d, updated, calls)} : RolloverWrites(d, updated, calls, writes)

RolloverWith(d, evs, calls) ==
    \E updated \in {UpdatedEvents(evs, calls)} : RolloverCalled(d, evs, calls, updated)

Rollover(d, evs, deletedIds) ==
    \E calls \in {RolloverCalls(d, evs, deletedIds)} : RolloverWith(d, evs, calls)

Init ==
    /\ now = AnchorTs - HourSecs
    /\ db \in Stores
    /\ events = [d \in Devices |-> [i \in Ids |-> None]]
    /\ pc = [d \in Devices |-> "unloaded"]
    /\ pending = [d \in Devices |-> [i \in Ids |-> None]]
    /\ deleting = [d \in Devices |-> {}]
    /\ inflight = {}
    /\ notifiedLog = [d \in Devices |-> {}]
    /\ console = {}
    /\ call = NoCalls
    /\ alarms = NoAlarms
    /\ server = NoPass
    /\ subs = NoSubs
    /\ other = NoPass

\* Time passes: the clock moves on to a later one of the instants.
AdvanceTo(instants) ==
    /\ \E t \in instants : t > now /\ now' = t
    /\ UNCHANGED <<db, events, pc, pending, deleting, inflight, notifiedLog, alarms, server, subs, other,
                   console, call>>

Advance == AdvanceTo(ClockInstants)

\* The load effect: fetch the events, delete the expired one-time events.
Load(d) ==
    /\ pc[d] = "unloaded"
    /\ \E deletedIds \in {ExpiredIds(fetchEvents, now)}, ok \in BOOLEAN :
           /\ db' = IF ok THEN Without(db, deletedIds) ELSE db
           /\ console' = IF ok \/ deletedIds = {} THEN console
                         ELSE console \cup {"Auto-delete failed"}
           /\ events' = [events EXCEPT ![d] = Without(fetchEvents, deletedIds)]
    /\ pc' = [pc EXCEPT ![d] = "idle"]
    /\ UNCHANGED <<now, pending, deleting, inflight, notifiedLog, alarms, server, subs, other, call>>

\* The load effect when the select fails: fetchEvents logs the error and
\* returns [], and the effect calls setEvents([]).
LoadFails(d) ==
    /\ pc[d] = "unloaded"
    /\ console' = console \cup {"Error fetching events"}
    /\ events' = [events EXCEPT ![d] = [i \in Ids |-> None]]
    /\ pc' = [pc EXCEPT ![d] = "idle"]
    /\ UNCHANGED <<now, db, pending, deleting, inflight, notifiedLog, alarms, server, subs, other, call>>

\* A tick of the main loop, up to its first suspension: the alarms, the delete
\* request of the expired events or, when there is none, the rollover step.
TickWith(d, notifyCalls, calls) ==
    /\ pc[d] = "idle"
    /\ Notify(d, notifyCalls)
    /\ \E toDelete \in {ExpiredIds(events[d], now)} :
           IF toDelete # {}
           THEN /\ deleting' = [deleting EXCEPT ![d] = toDelete]
                /\ pending' = [pending EXCEPT ![d] = events[d]]
                /\ pc' = [pc EXCEPT ![d] = "cleanup"]
                /\ UNCHANGED <<inflight, call>>
           ELSE /\ RolloverWith(d, events[d], calls)
                /\ UNCHANGED deleting
    /\ UNCHANGED <<now, db, events, console, server, subs, other>>

TickStart(d) ==
    \E notifyCalls \in {checkNotifications(events[d], now)} :
        \E calls \in {RolloverCalls(d, events[d], {})} : TickWith(d, notifyCalls, calls)

\* The delete request is answered (done, or failed and logged); the tick drops
\* the ids from the local state and goes on to the rollover step.
CleanupWith(d, calls) ==
    /\ pc[d] = "cleanup"
    /\ \E ok \in BOOLEAN :
          /\ db' = IF ok THEN Without(db, deleting[d]) ELSE db
          /\ console' = IF ok THEN console ELSE console \cup {"Auto-delete failed"}
    /\ events' = [events EXCEPT ![d] = Without(@, deleting[d])]
    /\ RolloverWith(d, pending[d], calls)
    /\ deleting' = [deleting EXCEPT ![d] = {}]
    /\ UNCHANGED <<now, notifiedLog, alarms, server, subs, other>>

CleanupResolve(d) ==
    \E calls \in {RolloverCalls(d, pending[d], deleting[d])} : CleanupWith(d, calls)

\* A write that inserts the row when the table does not hold the id.
updateEventUpsert(w) ==
    /\ w \in inflight
    /\ db' = [db EXCEPT ![w.event.id] =
                 Some(RowOf(mapToDb(w.event),
                            IF db[w.event.id] = None THEN 0 ELSE db[w.event.id][1].updated_at))]
    /\ inflight' = inflight \ {w}
    /\ UNCHANGED <<now, events, pc, pending, deleting, notifiedLog, alarms, server, subs, other, console, call>>

\* updateEvent at the store: the row of that id, if any, is replaced.
updateEvent(w) ==
    /\ w \in inflight
    /\ db' = IF db[w.event.id] = None THEN db
             ELSE [db EXCEPT ![w.event.id] =
                      Some(RowOf(mapToDb(w.event), db[w.event.id][1].updated_at))]
    /\ inflight' = inflight \ {w}
    /\ UNCHANGED <<now, events, pc, pending, deleting, notifiedLog, alarms, server, subs, other, console, call>>

\* updateEvent fails: the error is logged, nothing is written.
updateEventFails(w) ==
    /\ w \in inflight
    /\ console' = console \cup {"Error updating event"}
    /\ inflight' = inflight \ {w}
    /\ UNCHANGED <<now, db, events, pc, pending, deleting, notifiedLog, alarms, server, subs, other, call>>

\* All the writes of the tick are answered: setEvents(updatedEvents).
TickFinish(d) ==
    /\ pc[d] = "awaiting"
    /\ \A w \in inflight : w.dev # d
    /\ events' = [events EXCEPT ![d] = pending[d]]
    /\ pc' = [pc EXCEPT ![d] = "idle"]
    /\ UNCHANGED <<now, db, pending, deleting, inflight, notifiedLog, alarms, server, subs, other, console, call>>

Next ==
    \/ Advance
    \/ \E d \in Devices : Load(d)
    \/ \E d \in Devices : TickStart(d)
    \/ \E d \in Devices : CleanupResolve(d)
    \/ \E w \in inflight : updateEvent(w)
    \/ \E w \in inflight : updateEventFails(w)
    \/ \E d \in Devices : TickFinish(d)

Spec == Init /\ [][Next]_vars

-----------------------------------------------------------------------------
(* One client and its alarms: the ticks of one device around the alert      *)
(* instants of the reminders of its events.                                 *)

NotifyDevice == "dev1"

\* The instants of the ticks: around the alert instants of the offsets 60 and
\* 0 of the first occurrence, around the next occurrence, and past the two
\* hours after which a one-time event is deleted.
NotifyInstants ==
    { AnchorTs - HourSecs, AnchorTs - 10, AnchorTs, AnchorTs + 5,
      AnchorTs + CleanupHours * HourSecs + 5,
      AnchorTs + DaySecs - 10, AnchorTs + DaySecs }

\* The events table: a daily event with two offsets and a one-time event; a
\* daily event whose reminders list holds the same offset twice.
NotifyStores ==
    { [i \in Ids |-> IF i = "e1"
                     THEN Some(StoredEvent("e1", Some(Rule("daily", None, None, None)), <<60, 0>>))
                     ELSE Some(StoredEvent("e2", None, <<0>>))],
      [i \in Ids |-> IF i = "e1"
                     THEN Some(StoredEvent("e1", Some(Rule("daily", None, None, None)), <<0, 0>>))
                     ELSE None] }

InitNotify ==
    /\ now = AnchorTs - HourSecs - 10
    /\ db \in NotifyStores
    /\ events = [d \in Devices |-> [i \in Ids |-> None]]
    /\ pc = [d \in Devices |-> "unloaded"]
    /\ pending = [d \in Devices |-> [i \in Ids |-> None]]
    /\ deleting = [d \in Devices |-> {}]
    /\ inflight = {}
    /\ notifiedLog = [d \in Devices |-> {}]
    /\ console = {}
    /\ call = NoCalls
    /\ alarms = NoAlarms
    /\ server = NoPass
    /\ subs = NoSubs
    /\ other = NoPass

AdvanceNotify == AdvanceTo(NotifyInstants)

NextNotify ==
    \/ AdvanceNotify
    \/ Load(NotifyDevice)
    \/ TickStart(NotifyDevice)
    \/ CleanupResolve(NotifyDevice)
    \/ \E w \in inflight : updateEvent(w)
    \/ \E w \in inflight : updateEventFails(w)
    \/ TickFinish(NotifyDevice)

SpecNotify == InitNotify /\ [][NextNotify]_vars

\* One client whose rollover writes may fail: a daily event and a one-time
\* event, and ticks past the first and the second occurrence.
RetryInstants ==
    { AnchorTs + CleanupHours * HourSecs + 5,
      AnchorTs + DaySecs + CleanupHours * HourSecs + 5 }

RetryStore ==
    [i \in Ids |-> IF i = "e1"
                   THEN Some(StoredEvent("e1", Some(Rule("daily", None, None, None)), <<0>>))
                   ELSE Some(StoredEvent("e2", None, <<0>>))]

InitRetry ==
    /\ now = AnchorTs - 10
    /\ db = RetryStore
    /\ events = [d \in Devices |-> [i \in Ids |-> None]]
    /\ pc = [d \in Devices |-> "unloaded"]
    /\ pending = [d \in Devices |-> [i \in Ids |-> None]]
    /\ deleting = [d \in Devices |-> {}]
    /\ inflight = {}
    /\ notifiedLog = [d \in Devices |-> {}]
    /\ console = {}
    /\ call = NoCalls
    /\ alarms = NoAlarms
    /\ server = NoPass
    /\ subs = NoSubs
    /\ other = NoPass

AdvanceRetry == AdvanceTo(RetryInstants)

\* An outstanding write is answered, with success or with an error.
Answered == \E w \in inflight : updateEvent(w) \/ updateEventFails(w)

Written == \E w \in inflight : updateEvent(w)

NextRetry ==
    \/ AdvanceRetry
    \/ Load(NotifyDevice)
    \/ TickStart(NotifyDevice)
    \/ CleanupResolve(NotifyDevice)
    \/ \E w \in inflight : updateEvent(w)
    \/ \E w \in inflight : updateEventFails(w)
    \/ TickFinish(NotifyDevice)

\* The step of a tick can be taken: ENABLED <<TickStart(d)>>_vars and
\* ENABLED <<CleanupResolve(d)>>_vars, with the calls of the pass computed in
\* the current state.
TickStartEnabled(d) ==
    \E notifyCalls \in {checkNotifications(events[d], now)} :
        \E calls \in {RolloverCalls(d, events[d], {})} :
            ENABLED <<TickWith(d, notifyCalls, calls)>>_vars

CleanupEnabled(d) ==
    \E calls \in {RolloverCalls(d, pending[d], deleting[d])} :
        ENABLED <<CleanupWith(d, calls)>>_vars

\* The client loop keeps running and the store keeps answering: setInterval
\* starts the next tick (weak fairness of TickStart and of CleanupResolve,
\* written out), every request is answered, and a write that is issued again
\* and again succeeds in the end.
SpecRetry ==
    /\ InitRetry
    /\ [][NextRetry]_vars
    /\ ([]<>~TickStartEnabled(NotifyDevice) \/ []<><<TickStart(NotifyDevice)>>_vars)
    /\ ([]<>~CleanupEnabled(NotifyDevice) \/ []<><<CleanupResolve(NotifyDevice)>>_vars)
    /\ WF_vars(TickFinish(NotifyDevice))
    /\ WF_vars(Answered)
    /\ SF_vars(Written)

\* One client over an event whose anchor is more than two thousand periods
\* old: an event every hour, next to a daily event, and ticks past the two
\* thousandth hour after the anchor.
CatchUpStore ==
    [i \in Ids |-> IF i = "e1"
                   THEN Some(StoredEvent("e1", Some(Rule("custom", Some(1), Some("hour"), None)),
                                         <<0>>))
                   ELSE Some(StoredEvent("e2", Some(Rule("daily", None, None, None)), <<0>>))]

CatchUpInstants ==
    { AnchorTs + (SafetyCap + 10) * HourSecs + 5, AnchorTs + (SafetyCap + 20) * HourSecs + 5 }

InitCatchUp ==
    /\ now = AnchorTs - 10
    /\ db = CatchUpStore
    /\ events = [d \in Devices |-> [i \in Ids |-> None]]
    /\ pc = [d \in Devices |-> "unloaded"]
    /\ pending = [d \in Devices |-> [i \in Ids |-> None]]
    /\ deleting = [d \in Devices |-> {}]
    /\ inflight = {}
    /\ notifiedLog = [d \in Devices |-> {}]
    /\ console = {}
    /\ call = NoCalls
    /\ alarms = NoAlarms
    /\ server = NoPass
    /\ subs = NoSubs
    /\ other = NoPass

AdvanceCatchUp == AdvanceTo(CatchUpInstants)

NextCatchUp ==
    \/ AdvanceCatchUp
    \/ Load(NotifyDevice)
    \/ TickStart(NotifyDevice)
    \/ \E w \in inflight : updateEvent(w)
    \/ \E w \in inflight : updateEventFails(w)
    \/ TickFinish(NotifyDevice)

\* The loop keeps running and the store keeps answering, as in SpecRetry; the
\* client is loaded.
SpecCatchUp ==
    /\ InitCatchUp
    /\ [][NextCatchUp]_vars
    /\ WF_vars(Load(NotifyDevice))
    /\ ([]<>~TickStartEnabled(NotifyDevice) \/ []<><<TickStart(NotifyDevice)>>_vars)
    /\ WF_vars(TickFinish(NotifyDevice))
    /\ WF_vars(Answered)
    /\ SF_vars(Written)

-----------------------------------------------------------------------------
(* The server job (api/cron.ts) and the reaper of the later storage module. *)

ServerCleanupHours == 2
ReaperMinutes == 1
DayMinutes == 1440

\* dt.startOf('day') and dt.endOf('day'); the end of a day is the last instant
\* before the start of the next one.
StartOfDay(dt) ==
    [ts |-> FixOffset(ObjToLocalTS([Fields(dt) EXCEPT !.hour = 0, !.minute = 0,
                                                      !.second = 0]),
                      Offset(dt.zone, dt.ts), dt.zone),
     zone |-> dt.zone]

EndOfDay(dt) == StartOfDay(Plus(dt, Dur(0, 0, 0, 1, 0))).ts - 1

\* A window that opens at the instant of the pass.
TargetStartFromNow(nowTs) == nowTs

\* The target window of a pass: tomorrow's calendar day in Toronto.
TargetStart(nowTs) ==
    StartOfDay(Plus([ts |-> nowTs, zone |-> TIMEZONE_CA], Dur(0, 0, 0, 1, 0))).ts

\* A window that takes in the first instant of the day after.
TargetEndNextStart(nowTs) ==
    StartOfDay(Plus([ts |-> nowTs, zone |-> TIMEZONE_CA], Dur(0, 0, 0, 2, 0))).ts

TargetEnd(nowTs) == EndOfDay(Plus([ts |-> nowTs, zone |-> TIMEZONE_CA], Dur(0, 0, 0, 1, 0)))

\* A rule object without a type.
NoType == ""

\* A test that takes every row for a one-time event.
IsOneTimeAnyRule(row) == TRUE

\* isOneTime of the server job.
IsOneTimeRow(row) ==
    \/ row.recurrence_rule = None
    \/ row.recurrence_rule[1].type = "none"
    \/ row.recurrence_rule[1].type = NoType

\* A cleanup test that takes in the row exactly two hours past.
RowExpiredAtBoundary(row, nowTs) ==
    /\ IsOneTimeRow(row)
    /\ row.next_alert_at # None
    /\ row.next_alert_at[1].ts <= nowTs - ServerCleanupHours * HourSecs

\* The cleanup test: a one-time row whose next_alert_at is more than two hours
\* past.  A row without next_alert_at gives an invalid DateTime, which compares
\* false.
RowExpired(row, nowTs) ==
    /\ IsOneTimeRow(row)
    /\ row.next_alert_at # None
    /\ row.next_alert_at[1].ts < nowTs - ServerCleanupHours * HourSecs

\* The label of a matched reminder; displayTime is the event time in Toronto.
LabelOf(title, minutesBefore, displayTime) ==
    IF minutesBefore = 0
    THEN [kind |-> "at", title |-> title, text |-> <<displayTime.hour, displayTime.minute>>]
    ELSE IF minutesBefore = DayMinutes
    THEN [kind |-> "on", title |-> title, text |-> <<displayTime.month, displayTime.day>>]
    ELSE IF minutesBefore > DayMinutes
    THEN [kind |-> "days", title |-> title,
          text |-> <<(2 * minutesBefore + DayMinutes) \div (2 * DayMinutes)>>]
    ELSE [kind |-> "reminder", title |-> title,
          text |-> <<displayTime.hour, displayTime.minute>>]

Includes(seq, x) == \E n \in 1 .. Len(seq) : seq[n] = x

\* The loop over the reminders of a row, from entry k on.  The state of the
\* pass: eventsToDelete, deviceAlerts (device -> labels), matchedAlertCount and
\* the entries matched (id, k).
RECURSIVE RemindersFrom(_, _, _, _, _, _)
AddAlertEvery(acc, row, k, label) ==
    [acc EXCEPT !.matchedAlertCount = @ + 1,
                !.matched = @ \cup {[id |-> row.id, k |-> k]},
                !.deviceAlerts[row.device_id] = Append(@, label)]

AddAlert(acc, row, k, label) ==
    [acc EXCEPT !.matchedAlertCount = @ + 1,
                !.matched = @ \cup {[id |-> row.id, k |-> k]},
                !.deviceAlerts[row.device_id] =
                    IF Includes(@, label) THEN @ ELSE Append(@, label)]

RemindersFrom(acc, row, k, targetStart, targetEnd, displayTime) ==
    IF k > Len(row.reminders) THEN acc
    ELSE RemindersFrom(
            IF /\ row.next_alert_at[1].ts - row.reminders[k] * MinuteSecs >= targetStart
               /\ row.next_alert_at[1].ts - row.reminders[k] * MinuteSecs <= targetEnd
            THEN AddAlert(acc, row, k, LabelOf(row.title, row.reminders[k], displayTime))
            ELSE acc,
            row, k + 1, targetStart, targetEnd, displayTime)

\* The body of the loop over the events, for one row.
ProcessRow(acc, row, nowTs, targetStart, targetEnd) ==
    IF RowExpired(row, nowTs)
    THEN [acc EXCEPT !.eventsToDelete = @ \cup {row.id}]
    ELSE IF row.device_id = "" \/ row.next_alert_at = None
    THEN acc
    ELSE RemindersFrom(acc, row, 1, targetStart, targetEnd,
                       Fields([ts |-> row.next_alert_at[1].ts, zone |-> TIMEZONE_CA]))

IdOrder == <<"e1", "e2">>

RECURSIVE RowsFrom(_, _, _, _, _, _)
RowsFrom(acc, rows, n, nowTs, targetStart, targetEnd) ==
    IF n > Len(IdOrder) THEN acc
    ELSE RowsFrom(IF rows[IdOrder[n]] = None THEN acc
                  ELSE ProcessRow(acc, rows[IdOrder[n]][1], nowTs, targetStart, targetEnd),
                  rows, n + 1, nowTs, targetStart, targetEnd)

\* A pass of the handler over the rows it has read.  kind: the handler
\* ("digest": api/cron.ts, "upcoming": the earlier job, "test": api/test-push.ts);
\* queue: the recipients
\* still to be served; serving: the recipient being served; targets: the subscription rows of the recipient being
\* served that are still to be sent to; message: the title and body built for
\* that recipient; attempts: the calls of sendNotification so far.
NoMessage == [count |-> 0, lines |-> <<>>, more |-> None]

EmptyPass(rows, nowTs) ==
    [kind |-> "digest", phase |-> "done", at |-> nowTs, read |-> TRUE, rows |-> rows,
     eventsToDelete |-> {}, deviceAlerts |-> [d \in Devices |-> <<>>],
     matchedAlertCount |-> 0, matched |-> {},
     queue |-> <<>>, serving |-> "", targets |-> <<>>, message |-> NoMessage,
     attempts |-> <<>>]

Scan(rows, nowTs) ==
    IF \A i \in Ids : rows[i] = None
    THEN EmptyPass(rows, nowTs)
    ELSE RowsFrom(EmptyPass(rows, nowTs), rows, 1, nowTs, TargetStart(nowTs),
                  TargetEnd(nowTs))

\* Object.entries(deviceAlerts): the recipients in the order of their first
\* match.
RECURSIVE QueueFrom(_, _, _)
QueueFrom(pass, n, acc) ==
    IF n > Len(IdOrder) THEN acc
    ELSE QueueFrom(pass, n + 1,
                   IF /\ \E m \in pass.matched : m.id = IdOrder[n]
                      /\ ~Includes(acc, pass.rows[IdOrder[n]][1].device_id)
                   THEN Append(acc, pass.rows[IdOrder[n]][1].device_id)
                   ELSE acc)

\* The pass once its deletions are behind it: it serves the recipients, or
\* answers when there is none.
Sending(pass) ==
    [pass EXCEPT !.phase = IF pass.matched = {} THEN "done" ELSE "sending",
                 !.queue = QueueFrom(pass, 1, <<>>)]

\* The handler up to its delete request.
Deleting(pass) ==
    IF pass.eventsToDelete = {} THEN Sending(pass) ELSE [pass EXCEPT !.phase = "deleting"]

NoRows == [i \in Ids |-> None]

\* The select of the events: a failed select gives no data, and the handler
\* answers as for an empty table.
ScanStep(run, next) ==
    /\ run.phase \in {"none", "done"}
    /\ \E ok \in BOOLEAN :
          next = [Deleting(Scan(IF ok THEN db ELSE NoRows, now)) EXCEPT !.read = ok]

\* A delete that writes back the rows the run has read, without the expired.
DeleteStepStale(run, next) ==
    /\ run.phase = "deleting"
    /\ \E ok \in BOOLEAN :
          /\ db' = IF ok THEN Without(run.rows, run.eventsToDelete) ELSE db
          /\ console' = IF ok THEN console ELSE console \cup {"Deletion failed"}
    /\ next = Sending(run)

\* The delete request is answered: done, or failed and logged.
DeleteStep(run, next) ==
    /\ run.phase = "deleting"
    /\ \E ok \in BOOLEAN :
          /\ db' = IF ok THEN Without(db, run.eventsToDelete) ELSE db
          /\ console' = IF ok THEN console ELSE console \cup {"Deletion failed"}
    /\ next = Sending(run)

\* The title and body of a recipient's digest: the number of its labels, the
\* first four of them and, beyond four, the number of the others.
PreviewCount == 4

\* The message of the earlier job: the number of the recipient's events, the
\* first three of them and, beyond three, the number of the others.
UpcomingPreview == 3

UpcomingMessage(lines) ==
    [count |-> Len(lines),
     lines |-> SubSeq(lines, 1, IF Len(lines) > UpcomingPreview THEN UpcomingPreview
                                ELSE Len(lines)),
     more |-> IF Len(lines) > UpcomingPreview THEN Some(Len(lines) - UpcomingPreview)
              ELSE None]

\* A message that lists three labels.
MessageOfThree(alerts) == UpcomingMessage(alerts)

Message(alerts) ==
    [count |-> Len(alerts),
     lines |-> SubSeq(alerts, 1, IF Len(alerts) > PreviewCount THEN PreviewCount
                                 ELSE Len(alerts)),
     more |-> IF Len(alerts) > PreviewCount THEN Some(Len(alerts) - PreviewCount) ELSE None]

\* The message of the test handler does not depend on the events.
TestMessage == [count |-> 0, lines |-> <<"Test Notification">>, more |-> None]

MessageOf(kind, alerts) ==
    IF kind = "digest" THEN Message(alerts)
    ELSE IF kind = "upcoming" THEN UpcomingMessage(alerts)
    ELSE TestMessage

\* The subscriptions table: rows (id, device_id), read in the order of the ids.
SubOrder == <<"s1", "s2", "s3">>

SubsOf(device) ==
    LET Has(x) == [id |-> x, device_id |-> device] \in subs
    IN  SelectSeq(SubOrder, Has)

\* The pass has answered once no recipient and no subscription is left.
Settle(pass) ==
    IF pass.queue = <<>> /\ pass.targets = <<>> THEN [pass EXCEPT !.phase = "done"] ELSE pass

\* The select of the subscriptions of the next recipient, and its message.
SubsStep(run, next) ==
    /\ run.phase = "sending"
    /\ run.targets = <<>>
    /\ run.queue # <<>>
    /\ next = Settle([run EXCEPT !.queue = Tail(@),
                                 !.serving = Head(run.queue),
                                 !.targets = SubsOf(Head(run.queue)),
                                 !.message = MessageOf(run.kind,
                                                       run.deviceAlerts[Head(run.queue)])])

\* The status of a send: delivered, or the statusCode of the error thrown
\* (gone, not found, forbidden: the credentials do not match, or any other).
Delivered == 201
Gone == 410
NotFound == 404
Forbidden == 403
Unavailable == 500
Statuses == {Delivered, Gone, NotFound, Forbidden, Unavailable}

Invalidates(status) == status = Gone \/ status = NotFound \/ status = Forbidden

\* The earlier job deletes the subscription that is gone or not found only.
InvalidatesGoneOnly(status) == status = Gone \/ status = NotFound

InvalidatesFor(kind, status) ==
    IF kind = "upcoming" THEN InvalidatesGoneOnly(status) ELSE Invalidates(status)

\* A send loop that a failed send brings to an end.
SendStepAbort(run, next) ==
    /\ run.phase = "sending"
    /\ run.targets # <<>>
    /\ \E status \in Statuses :
          /\ next = Settle([run EXCEPT
                               !.targets = IF status = Delivered THEN Tail(@) ELSE <<>>,
                               !.queue = IF status = Delivered THEN @ ELSE <<>>,
                               !.attempts = Append(@, [sub |-> Head(run.targets),
                                                       device |-> run.serving,
                                                       message |-> run.message,
                                                       status |-> status])])
          /\ console' = IF status = Delivered THEN console
                        ELSE console \cup {"Failed to push to device"}
          /\ subs' = IF InvalidatesFor(run.kind, status)
                     THEN { r \in subs : r.id # Head(run.targets) }
                     ELSE subs

\* One turn of the send loop: sendNotification to the next subscription; a
\* failure is logged, and a subscription that is gone, not found or forbidden
\* is deleted from the table.
SendStep(run, next) ==
    /\ run.phase = "sending"
    /\ run.targets # <<>>
    /\ \E status \in Statuses :
          /\ next = Settle([run EXCEPT
                               !.targets = Tail(@),
                               !.attempts = Append(@, [sub |-> Head(run.targets),
                                                       device |-> run.serving,
                                                       message |-> run.message,
                                                       status |-> status])])
          /\ console' = IF status = Delivered THEN console
                        ELSE console \cup {"Failed to push to device"}
          /\ subs' = IF InvalidatesFor(run.kind, status)
                     THEN { r \in subs : r.id # Head(run.targets) }
                     ELSE subs

CronScan ==
    /\ ScanStep(server, server')
    /\ UNCHANGED <<now, db, events, pc, pending, deleting, inflight, notifiedLog, alarms,
                   console, call, subs, other>>

CronDelete ==
    /\ DeleteStep(server, server')
    /\ UNCHANGED <<now, events, pc, pending, deleting, inflight, notifiedLog, alarms, call,
                   subs, other>>

CronSubs ==
    /\ SubsStep(server, server')
    /\ UNCHANGED <<now, db, events, pc, pending, deleting, inflight, notifiedLog, alarms,
                   console, call, subs, other>>

CronSend ==
    /\ SendStep(server, server')
    /\ UNCHANGED <<now, db, events, pc, pending, deleting, inflight, notifiedLog, alarms,
                   call, other>>

\* The earlier job: the rows whose next_alert_at lies in the next 24 hours,
\* grouped by recipient, one line for each row.
UpcomingLine(row) == [kind |-> "upcoming", title |-> row.title, text |-> <<row.next_alert_at[1].ts>>]

InNextDay(row, nowTs) ==
    /\ row.next_alert_at # None
    /\ row.next_alert_at[1].ts >= nowTs
    /\ row.next_alert_at[1].ts <= nowTs + DaySecs

RECURSIVE UpcomingFrom(_, _, _)
UpcomingFrom(acc, n, nowTs) ==
    IF n > Len(IdOrder) THEN acc
    ELSE UpcomingFrom(
            IF /\ acc.rows[IdOrder[n]] # None
               /\ InNextDay(acc.rows[IdOrder[n]][1], nowTs)
               /\ acc.rows[IdOrder[n]][1].device_id # ""
            THEN [acc EXCEPT !.deviceAlerts[acc.rows[IdOrder[n]][1].device_id] =
                                 Append(@, UpcomingLine(acc.rows[IdOrder[n]][1])),
                             !.matched = @ \cup {[id |-> IdOrder[n], k |-> 0]}]
            ELSE acc,
            n + 1, nowTs)

\* A failed select throws, and the handler answers with the error.
UpcomingScan ==
    /\ server.phase \in {"none", "done"}
    /\ \E ok \in BOOLEAN :
          server' = Sending([UpcomingFrom([EmptyPass(IF ok THEN db ELSE NoRows, now)
                                              EXCEPT !.kind = "upcoming"], 1, now)
                                EXCEPT !.read = ok])
    /\ UNCHANGED <<now, db, events, pc, pending, deleting, inflight, notifiedLog, alarms,
                   console, call, subs, other>>

\* The test handler for a device: it sends to the subscriptions of the device.
TestPush(d) ==
    /\ server.phase \in {"none", "done"}
    /\ server' = [EmptyPass(NoRows, now) EXCEPT !.kind = "test", !.phase = "sending",
                                                 !.queue = <<d>>]
    /\ UNCHANGED <<now, db, events, pc, pending, deleting, inflight, notifiedLog, alarms,
                   console, call, subs, other>>

\* A reaper without the minute of grace: an event is taken as soon as its
\* next alert is past.
ReaperIdsNoGrace(evs, nowTs) ==
    { i \in Ids : /\ evs[i] # None
                  /\ IsOneTime(evs[i][1])
                  /\ evs[i][1].nextAlertAt # None
                  /\ evs[i][1].nextAlertAt[1].ts < nowTs }

\* cleanupPastEvents of the later storage module: the one-time events whose
\* nextAlertAt is more than a minute past; an event without nextAlertAt is
\* not valid and is passed over.
ReaperIds(evs, nowTs) ==
    { i \in Ids : /\ evs[i] # None
                  /\ IsOneTime(evs[i][1])
                  /\ evs[i][1].nextAlertAt # None
                  /\ evs[i][1].nextAlertAt[1].ts + ReaperMinutes * MinuteSecs < nowTs }

-----------------------------------------------------------------------------
(* The server job next to one client: the passes of the job over a table   *)
(* whose rows carry next_alert_at or not.                                   *)

\* The row of an event saved with the given next alert text and recipient.
AlertEvent(id, rule, reminders, deviceId, nextAlertAt) ==
    createEvent([Event(id, FormText(At(2024, 3, 1, 9, 0, 0, TIMEZONE_CA)), TIMEZONE_CA,
                       rule, reminders)
                    EXCEPT !.deviceId = deviceId, !.nextAlertAt = nextAlertAt])

AnchorText == Some(FormText(At(2024, 3, 1, 9, 0, 0, TIMEZONE_CA)))

Daily == Some(Rule("daily", None, None, None))

\* The events table.  The daily event of the first has the offsets 0, nine
\* hours (the alert falls on the first instant of the event's day) and a day.
DigestStores ==
    { [i \in Ids |-> IF i = "e1"
                     THEN Some(AlertEvent("e1", Daily, <<0, 540, DayMinutes>>, "dev1",
                                          AnchorText))
                     ELSE Some(AlertEvent("e2", None, <<0>>, "dev2", AnchorText))],
      [i \in Ids |-> IF i = "e1"
                     THEN Some(AlertEvent("e1", Daily, <<0>>, "dev1", None))
                     ELSE Some(AlertEvent("e2", None, <<0>>, "dev1", None))],
      [i \in Ids |-> IF i = "e1"
                     THEN Some(AlertEvent("e1", Some(Rule(NoType, None, None, None)), <<0>>,
                                          "dev1", None))
                     ELSE Some(AlertEvent("e2", None, <<0>>, "", AnchorText))],
      [i \in Ids |-> IF i = "e1"
                     THEN Some(AlertEvent("e1", Daily, <<0, 0>>, "dev1", AnchorText))
                     ELSE None] }

\* The instants of the passes: noon of the two days before the event, the
\* last second of the day before and the first of the event's day, and the
\* instants around two hours after the event.
DigestInstants ==
    { AnchorTs - DaySecs + 3 * HourSecs,
      AnchorTs - 9 * HourSecs - 1, AnchorTs - 9 * HourSecs,
      AnchorTs + BufferMinutes * MinuteSecs + 1,
      AnchorTs + ServerCleanupHours * HourSecs,
      AnchorTs + ServerCleanupHours * HourSecs + 1,
      AnchorTs + 3 * HourSecs }

InitDigest ==
    /\ now = AnchorTs - 2 * DaySecs + 3 * HourSecs
    /\ db \in DigestStores
    /\ events = [d \in Devices |-> [i \in Ids |-> None]]
    /\ pc = [d \in Devices |-> "unloaded"]
    /\ pending = [d \in Devices |-> [i \in Ids |-> None]]
    /\ deleting = [d \in Devices |-> {}]
    /\ inflight = {}
    /\ notifiedLog = [d \in Devices |-> {}]
    /\ console = {}
    /\ call = NoCalls
    /\ alarms = NoAlarms
    /\ server = NoPass
    /\ subs = NoSubs
    /\ other = NoPass

AdvanceDigest == AdvanceTo(DigestInstants)

NextDigest ==
    \/ AdvanceDigest
    \/ CronScan
    \/ CronDelete
    \/ CronSubs
    \/ Load(NotifyDevice)
    \/ TickStart(NotifyDevice)
    \/ CleanupResolve(NotifyDevice)
    \/ \E w \in inflight : updateEvent(w)
    \/ \E w \in inflight : updateEventFails(w)
    \/ TickFinish(NotifyDevice)

SpecDigest == InitDigest /\ [][NextDigest]_vars

-----------------------------------------------------------------------------
(* The sending handlers: the server job, the earlier job and the test      *)
(* handler over a table of events and a table of subscriptions.             *)

\* The events table two days before the events: offsets that put alerts on
\* the day before the events (ten hours, eleven hours, a day, 25 hours).
PushStores ==
    { [i \in Ids |-> IF i = "e1"
                     THEN Some(AlertEvent("e1", Daily, <<600, DayMinutes, 1500>>, "dev1",
                                          AnchorText))
                     ELSE Some(AlertEvent("e2", None, <<600, DayMinutes, 1500>>, "dev1",
                                          AnchorText))],
      [i \in Ids |-> IF i = "e1"
                     THEN Some(AlertEvent("e1", Daily, <<600, DayMinutes, 1500>>, "dev1",
                                          AnchorText))
                     ELSE Some(AlertEvent("e2", None, <<DayMinutes>>, "dev1", AnchorText))],
      [i \in Ids |-> IF i = "e1"
                     THEN Some(AlertEvent("e1", Daily, <<600, 660>>, "dev1", AnchorText))
                     ELSE Some(AlertEvent("e2", None, <<DayMinutes>>, "dev2", AnchorText))],
      [i \in Ids |-> IF i = "e1"
                     THEN Some(AlertEvent("e1", Daily, <<DayMinutes, 0>>, "dev1", AnchorText))
                     ELSE Some(AlertEvent("e2", None, <<DayMinutes>>, "", AnchorText))] }

\* The subscriptions table: two subscriptions of one device and one of the
\* other, or one subscription only.
PushSubs ==
    { { [id |-> "s1", device_id |-> "dev1"], [id |-> "s2", device_id |-> "dev1"],
        [id |-> "s3", device_id |-> "dev2"] },
      { [id |-> "s1", device_id |-> "dev1"] } }

\* The instants of the passes: noon of the two days before the event and
\* three hours after it.
PushInstants == { AnchorTs - DaySecs + 3 * HourSecs, AnchorTs + 3 * HourSecs }

InitPush ==
    /\ now = AnchorTs - 2 * DaySecs + 3 * HourSecs
    /\ db \in PushStores
    /\ subs \in PushSubs
    /\ events = [d \in Devices |-> [i \in Ids |-> None]]
    /\ pc = [d \in Devices |-> "unloaded"]
    /\ pending = [d \in Devices |-> [i \in Ids |-> None]]
    /\ deleting = [d \in Devices |-> {}]
    /\ inflight = {}
    /\ notifiedLog = [d \in Devices |-> {}]
    /\ console = {}
    /\ call = NoCalls
    /\ alarms = NoAlarms
    /\ server = NoPass
    /\ other = NoPass

AdvancePush == AdvanceTo(PushInstants)

NextPush ==
    \/ AdvancePush
    \/ CronScan
    \/ CronDelete
    \/ CronSubs
    \/ CronSend
    \/ UpcomingScan
    \/ \E d \in Devices : TestPush(d)

SpecPush == InitPush /\ [][NextPush]_vars

-----------------------------------------------------------------------------
(* The reapers: the server job, the load of a client of this storage module *)
(* and a client of the later storage module, over the same table.           *)

LaterDevice == "dev2"

\* cleanupPastEvents of the later storage module on the events the device
\* holds: the delete request for the ids is issued and not awaited.
Reap(d) ==
    /\ d = LaterDevice
    /\ deleting[d] = {}
    /\ \E toDelete \in {ReaperIds(events[d], now)} :
           /\ toDelete # {}
           /\ deleting' = [deleting EXCEPT ![d] = toDelete]
    /\ UNCHANGED <<now, db, events, pc, pending, inflight, notifiedLog, alarms, server, subs, other,
                   console, call>>

\* The delete request of the later storage module is answered.
ReapResolve(d) ==
    /\ d = LaterDevice
    /\ deleting[d] # {}
    /\ \E ok \in BOOLEAN :
          /\ db' = IF ok THEN Without(db, deleting[d]) ELSE db
          /\ console' = IF ok THEN console ELSE console \cup {"DB Auto-delete failed"}
    /\ deleting' = [deleting EXCEPT ![d] = {}]
    /\ UNCHANGED <<now, events, pc, pending, inflight, notifiedLog, alarms, server, subs, other, call>>

\* The events table: one-time events (no rule, or a rule of type none) and
\* recurring events, with and without a next alert.
ReaperStores ==
    { [i \in Ids |-> IF i = "e1"
                     THEN Some(AlertEvent("e1", Daily, <<0>>, "dev1", AnchorText))
                     ELSE Some(AlertEvent("e2", None, <<0>>, "dev1", AnchorText))],
      [i \in Ids |-> IF i = "e1"
                     THEN Some(AlertEvent("e1", Some(Rule("none", None, None, None)), <<0>>,
                                          "dev1", AnchorText))
                     ELSE Some(AlertEvent("e2", None, <<0>>, "dev1", None))],
      [i \in Ids |-> IF i = "e1"
                     THEN Some(AlertEvent("e1", Some(Rule("custom", Some(3), Some("day"), None)),
                                          <<0>>, "dev1", AnchorText))
                     ELSE Some(AlertEvent("e2", None, <<0>>, "", AnchorText))],
      [i \in Ids |-> IF i = "e1"
                     THEN Some(AlertEvent("e1", Some(Rule("weekly", None, None, None)), <<0>>,
                                          "dev1", AnchorText))
                     ELSE None] }

\* The instants of the passes: the minute and the two hours after the event,
\* each exactly and a second later, three hours and thirty days after it.
ReaperInstants ==
    { AnchorTs + ReaperMinutes * MinuteSecs + 1,
      AnchorTs + ServerCleanupHours * HourSecs,
      AnchorTs + ServerCleanupHours * HourSecs + 1,
      AnchorTs + 3 * HourSecs,
      AnchorTs + 30 * DaySecs + 61 }

InitReaper ==
    /\ now = AnchorTs + ReaperMinutes * MinuteSecs
    /\ db \in ReaperStores
    /\ events = [d \in Devices |-> IF d = LaterDevice THEN fetchEvents
                                   ELSE [i \in Ids |-> None]]
    /\ pc = [d \in Devices |-> "unloaded"]
    /\ pending = [d \in Devices |-> [i \in Ids |-> None]]
    /\ deleting = [d \in Devices |-> {}]
    /\ inflight = {}
    /\ notifiedLog = [d \in Devices |-> {}]
    /\ console = {}
    /\ call = NoCalls
    /\ alarms = NoAlarms
    /\ server = NoPass
    /\ subs = NoSubs
    /\ other = NoPass

AdvanceReaper == AdvanceTo(ReaperInstants)

NextReaper ==
    \/ AdvanceReaper
    \/ Reap(LaterDevice)
    \/ ReapResolve(LaterDevice)
    \/ CronScan
    \/ CronDelete
    \/ Load(NotifyDevice)

SpecReaper == InitReaper /\ [][NextReaper]_vars

-----------------------------------------------------------------------------
(* Reads that fail: the load of a client, the refresh after a scan of the   *)
(* server job, and the select of the job itself.                            *)

\* handleTriggerDigest once the job has answered with eventsDeleted > 0: the
\* events are fetched again and set; a failed select is logged by fetchEvents,
\* which then returns [].
RefreshRead(d, ok) ==
    /\ pc[d] = "idle"
    /\ server.phase = "done"
    /\ server.kind = "digest"
    /\ server.eventsToDelete # {}
    /\ events' = [events EXCEPT ![d] = IF ok THEN fetchEvents ELSE [i \in Ids |-> None]]
    /\ console' = IF ok THEN console ELSE console \cup {"Error fetching events"}
    /\ UNCHANGED <<now, db, pc, pending, deleting, inflight, notifiedLog, alarms, server,
                   subs, other, call>>

Refresh(d) == \E ok \in BOOLEAN : RefreshRead(d, ok)

\* The events table: a daily event and a one-time event, both with their next
\* alert at the anchor.
RefreshStore ==
    [i \in Ids |-> IF i = "e1"
                   THEN Some(AlertEvent("e1", Daily, <<0>>, "dev1", AnchorText))
                   ELSE Some(AlertEvent("e2", None, <<0>>, "dev1", AnchorText))]

InitRefresh ==
    /\ now = AnchorTs - 10
    /\ db = RefreshStore
    /\ events = [d \in Devices |-> [i \in Ids |-> None]]
    /\ pc = [d \in Devices |-> "unloaded"]
    /\ pending = [d \in Devices |-> [i \in Ids |-> None]]
    /\ deleting = [d \in Devices |-> {}]
    /\ inflight = {}
    /\ notifiedLog = [d \in Devices |-> {}]
    /\ console = {}
    /\ call = NoCalls
    /\ alarms = NoAlarms
    /\ server = NoPass
    /\ subs = NoSubs
    /\ other = NoPass

NextRefresh ==
    \/ AdvanceRetry
    \/ Load(NotifyDevice)
    \/ LoadFails(NotifyDevice)
    \/ CronScan
    \/ CronDelete
    \/ Refresh(NotifyDevice)
    \/ TickStart(NotifyDevice)
    \/ CleanupResolve(NotifyDevice)
    \/ \E w \in inflight : updateEvent(w)
    \/ \E w \in inflight : updateEventFails(w)
    \/ TickFinish(NotifyDevice)

SpecRefresh == InitRefresh /\ [][NextRefresh]_vars

-----------------------------------------------------------------------------
(* One client over a table that holds an event whose rule is not one the    *)
(* form produces, next to a daily event.                                    *)

\* Rules the form does not produce: a type with no case, a lunar rule without
\* lunar data, custom rules with a field missing, with a unit that has no case
\* and with a negative interval.
MalformedRules ==
    { Rule("biweekly", None, None, None),
      Rule("yearly_lunar", None, None, None),
      Rule("custom", Some(3), None, None),
      Rule("custom", Some(2), Some("decade"), None),
      Rule("custom", Some(0 - 1), Some("day"), None) }

MalformedStores ==
    { [i \in Ids |-> IF i = "e1"
                     THEN Some(StoredEvent("e1", Some(rule), <<0>>))
                     ELSE Some(StoredEvent("e2", Some(Rule("daily", None, None, None)), <<0>>))] :
        rule \in MalformedRules }

InitMalformed ==
    /\ now = AnchorTs - 10
    /\ db \in MalformedStores
    /\ events = [d \in Devices |-> [i \in Ids |-> None]]
    /\ pc = [d \in Devices |-> "unloaded"]
    /\ pending = [d \in Devices |-> [i \in Ids |-> None]]
    /\ deleting = [d \in Devices |-> {}]
    /\ inflight = {}
    /\ notifiedLog = [d \in Devices |-> {}]
    /\ console = {}
    /\ call = NoCalls
    /\ alarms = NoAlarms
    /\ server = NoPass
    /\ subs = NoSubs
    /\ other = NoPass

NextMalformed ==
    \/ AdvanceRetry
    \/ Load(NotifyDevice)
    \/ TickStart(NotifyDevice)
    \/ \E w \in inflight : updateEvent(w)
    \/ \E w \in inflight : updateEventFails(w)
    \/ TickFinish(NotifyDevice)

SpecMalformed == InitMalformed /\ [][NextMalformed]_vars

-----------------------------------------------------------------------------
(* Two invocations of the server job over the same tables: the steps of the *)
(* one (server) and of the other (other) interleave.                        *)

OtherScan ==
    /\ ScanStep(other, other')
    /\ UNCHANGED <<now, db, events, pc, pending, deleting, inflight, notifiedLog, alarms,
                   console, call, subs, server>>

OtherDelete ==
    /\ DeleteStep(other, other')
    /\ UNCHANGED <<now, events, pc, pending, deleting, inflight, notifiedLog, alarms, call,
                   subs, server>>

OtherSubs ==
    /\ SubsStep(other, other')
    /\ UNCHANGED <<now, db, events, pc, pending, deleting, inflight, notifiedLog, alarms,
                   console, call, subs, server>>

OtherSend ==
    /\ SendStep(other, other')
    /\ UNCHANGED <<now, db, events, pc, pending, deleting, inflight, notifiedLog, alarms,
                   call, server>>

NextDayText == Some(FormText(At(2024, 3, 2, 9, 0, 0, TIMEZONE_CA)))

\* The events table: a one-time event at the anchor and a one-time event a day
\* later with a reminder a day before; a one-time event and a daily event.
OverlapStores ==
    { [i \in Ids |-> IF i = "e1"
                     THEN Some(AlertEvent("e1", None, <<0>>, "dev1", AnchorText))
                     ELSE Some(AlertEvent("e2", None, <<DayMinutes>>, "dev1", NextDayText))],
      [i \in Ids |-> IF i = "e1"
                     THEN Some(AlertEvent("e1", None, <<0>>, "dev1", AnchorText))
                     ELSE Some(AlertEvent("e2", Daily, <<0>>, "dev1", NextDayText))] }

OverlapSubs == { [id |-> "s1", device_id |-> "dev1"] }

\* The instants of the runs: three hours after the first event and three
\* hours after the second.
OverlapInstants == { AnchorTs + 3 * HourSecs, AnchorTs + DaySecs + 3 * HourSecs }

InitOverlap ==
    /\ now = AnchorTs + HourSecs
    /\ db \in OverlapStores
    /\ subs = OverlapSubs
    /\ events = [d \in Devices |-> [i \in Ids |-> None]]
    /\ pc = [d \in Devices |-> "unloaded"]
    /\ pending = [d \in Devices |-> [i \in Ids |-> None]]
    /\ deleting = [d \in Devices |-> {}]
    /\ inflight = {}
    /\ notifiedLog = [d \in Devices |-> {}]
    /\ console = {}
    /\ call = NoCalls
    /\ alarms = NoAlarms
    /\ server = NoPass
    /\ other = NoPass

AdvanceOverlap == AdvanceTo(OverlapInstants)

NextOverlap ==
    \/ AdvanceOverlap
    \/ CronScan
    \/ CronDelete
    \/ CronSubs
    \/ CronSend
    \/ OtherScan
    \/ OtherDelete
    \/ OtherSubs
    \/ OtherSend

SpecOverlap == InitOverlap /\ [][NextOverlap]_vars

-----------------------------------------------------------------------------
(* The user saves an event while the loop of the client runs.               *)

\* handleSaveEvent on an event of the form: with the id of an event the client
\* holds it is an edit (the event is replaced in the local set and updateEvent
\* is called), otherwise the event is appended and createEvent is called.
\* The event of the form has no nextAlertAt, and a payload without
\* next_alert_at leaves the column of an updated row as it is.  The store call
\* takes effect with the step; its error is only logged.
handleSaveEvent(d, event) ==
    /\ pc[d] # "unloaded"
    /\ \E eventWithMeta \in {[event EXCEPT !.deviceId = d]} :
          /\ events' = [events EXCEPT ![d][event.id] = Some(eventWithMeta)]
          /\ \E ok \in BOOLEAN :
                IF events[d][event.id] # None
                THEN /\ db' = IF ok /\ db[event.id] # None
                              THEN [db EXCEPT ![event.id] =
                                       Some([RowOf(mapToDb(eventWithMeta),
                                                   db[event.id][1].updated_at)
                                               EXCEPT !.next_alert_at =
                                                          db[event.id][1].next_alert_at])]
                              ELSE db
                     /\ console' = IF ok THEN console
                                   ELSE console \cup {"Error updating event"}
                ELSE /\ db' = IF ok /\ db[event.id] = None
                              THEN [db EXCEPT ![event.id] = Some(createEvent(eventWithMeta))]
                              ELSE db
                     /\ console' = IF ok /\ db[event.id] = None THEN console
                                   ELSE console \cup {"Error creating event"}
    /\ UNCHANGED <<now, pc, pending, deleting, inflight, notifiedLog, alarms, server, subs,
                   other, call>>

\* What the user enters in the form: a new daily event, or a new title for
\* the event the client holds.
FormEvents(d) ==
    { Event("e2", FormText(At(2024, 3, 1, 9, 0, 0, TIMEZONE_CA)), TIMEZONE_CA,
            Some(Rule("daily", None, None, None)), <<0>>) }
    \cup { [events[d][i][1] EXCEPT !.title = "edited", !.nextAlertAt = None,
                                   !.updatedAt = now] :
             i \in { j \in Ids : events[d][j] # None /\ events[d][j][1].title # "edited" } }

SaveStore ==
    [i \in Ids |-> IF i = "e1"
                   THEN Some(StoredEvent("e1", Some(Rule("daily", None, None, None)), <<0>>))
                   ELSE None]

InitSave ==
    /\ now = AnchorTs - 10
    /\ db = SaveStore
    /\ events = [d \in Devices |-> [i \in Ids |-> None]]
    /\ pc = [d \in Devices |-> "unloaded"]
    /\ pending = [d \in Devices |-> [i \in Ids |-> None]]
    /\ deleting = [d \in Devices |-> {}]
    /\ inflight = {}
    /\ notifiedLog = [d \in Devices |-> {}]
    /\ console = {}
    /\ call = NoCalls
    /\ alarms = NoAlarms
    /\ server = NoPass
    /\ subs = NoSubs
    /\ other = NoPass

NextSave ==
    \/ AdvanceRetry
    \/ Load(NotifyDevice)
    \/ \E event \in FormEvents(NotifyDevice) : handleSaveEvent(NotifyDevice, event)
    \/ TickStart(NotifyDevice)
    \/ \E w \in inflight : updateEvent(w)
    \/ \E w \in inflight : updateEventFails(w)
    \/ TickFinish(NotifyDevice)

SpecSave == InitSave /\ [][NextSave]_vars

-----------------------------------------------------------------------------
(* Expiry next to the matchers: one-time events around their instant, under *)
(* the loop of the client, the reaper of the later storage module and the   *)
(* server job.                                                              *)

\* The events table: one-time events with the offsets 0 and a minute, and 0
\* and a day, with and without a next alert.
ExpiryStores ==
    { [i \in Ids |-> IF i = "e1"
                     THEN Some(AlertEvent("e1", None, <<0, 1>>, "dev1", AnchorText))
                     ELSE Some(AlertEvent("e2", Some(Rule("none", None, None, None)),
                                          <<0, DayMinutes>>, "dev1", na))] :
        na \in {None, AnchorText} }

\* The instants of the passes: within the window of the matcher after the
\* event, past the minute of the reaper, past the two hours of the client and
\* of the server job.
ExpiryInstants ==
    { AnchorTs + NotifyWindowSecs - 1,
      AnchorTs + ReaperMinutes * MinuteSecs + 1,
      AnchorTs + CleanupHours * HourSecs + 1 }

InitExpiry ==
    /\ now = AnchorTs - ReaperMinutes * MinuteSecs - NotifyWindowSecs + 1
    /\ db \in ExpiryStores
    /\ events = [d \in Devices |-> IF d = LaterDevice THEN fetchEvents
                                   ELSE [i \in Ids |-> None]]
    /\ pc = [d \in Devices |-> "unloaded"]
    /\ pending = [d \in Devices |-> [i \in Ids |-> None]]
    /\ deleting = [d \in Devices |-> {}]
    /\ inflight = {}
    /\ notifiedLog = [d \in Devices |-> {}]
    /\ console = {}
    /\ call = NoCalls
    /\ alarms = NoAlarms
    /\ server = NoPass
    /\ subs = NoSubs
    /\ other = NoPass

AdvanceExpiry == AdvanceTo(ExpiryInstants)

NextExpiry ==
    \/ AdvanceExpiry
    \/ Load(NotifyDevice)
    \/ TickStart(NotifyDevice)
    \/ CleanupResolve(NotifyDevice)
    \/ Reap(LaterDevice)
    \/ ReapResolve(LaterDevice)
    \/ CronScan
    \/ CronDelete

SpecExpiry == InitExpiry /\ [][NextExpiry]_vars

-----------------------------------------------------------------------------
(* The server job once on each Toronto calendar day, over a table that does *)
(* not change, around the two clock changes of 2024.                        *)

\* The local day number of an instant in Toronto.
TorontoDay(ts) == (ts + Offset(TIMEZONE_CA, ts)) \div DaySecs

\* The instants at which the job may run: the first and the last second of a
\* day, 02:30 and noon, on the days around 10 March and 3 November 2024.
TilingRuns ==
    { At(2024, md[1], md[2], hms[1], hms[2], hms[3], TIMEZONE_CA).ts :
        md \in { <<3, 7>>, <<3, 8>>, <<3, 9>>, <<3, 10>>, <<3, 11>>,
                 <<11, 1>>, <<11, 2>>, <<11, 3>>, <<11, 4>> },
        hms \in { <<0, 0, 0>>, <<2, 30, 0>>, <<12, 0, 0>>, <<23, 59, 59>> } }

\* The events table: alerts on the first and on the last second of a day, on
\* the short and on the long day, a day and twenty-five hours before.
TilingStores ==
    { [i \in Ids |-> IF i = "e1"
                     THEN Some(AlertEvent("e1", Daily, <<0, 1, DayMinutes, 1500>>, "dev1",
                               Some(FormText(At(2024, 3, 11, 0, 0, 0, TIMEZONE_CA)))))
                     ELSE Some(AlertEvent("e2", Daily, <<0, 1380>>, "dev1",
                               Some(FormText(At(2024, 3, 10, 23, 59, 59, TIMEZONE_CA)))))],
      [i \in Ids |-> IF i = "e1"
                     THEN Some(AlertEvent("e1", Daily, <<0, DayMinutes, 1500>>, "dev1",
                               Some(FormText(At(2024, 11, 4, 0, 0, 0, TIMEZONE_CA)))))
                     ELSE Some(AlertEvent("e2", Daily, <<0, 90>>, "dev1",
                               Some(FormText(At(2024, 11, 3, 1, 30, 0, TIMEZONE_CA)))))] }

InitTiling ==
    /\ now \in { t \in TilingRuns :
                   TorontoDay(t) \in { TorontoDay(At(2024, 3, 7, 12, 0, 0, TIMEZONE_CA).ts),
                                       TorontoDay(At(2024, 11, 1, 12, 0, 0, TIMEZONE_CA).ts) } }
    /\ db \in TilingStores
    /\ events = [d \in Devices |-> [i \in Ids |-> None]]
    /\ pc = [d \in Devices |-> "unloaded"]
    /\ pending = [d \in Devices |-> [i \in Ids |-> None]]
    /\ deleting = [d \in Devices |-> {}]
    /\ inflight = {}
    /\ notifiedLog = [d \in Devices |-> {}]
    /\ console = {}
    /\ call = NoCalls
    /\ alarms = NoAlarms
    /\ server = NoPass
    /\ subs = OverlapSubs
    /\ other = NoPass

\* The run of a day has answered, and the clock moves on to an instant of the
\* next day.
AdvanceDay ==
    /\ server.phase = "done"
    /\ TorontoDay(server.at) = TorontoDay(now)
    /\ \E t \in TilingRuns : TorontoDay(t) = TorontoDay(now) + 1 /\ now' = t
    /\ UNCHANGED <<db, events, pc, pending, deleting, inflight, notifiedLog, alarms, server,
                   subs, other, console, call>>

\* The run of the day: the job has not run on this day yet.
DailyScan ==
    /\ IF server.phase = "none" THEN TRUE ELSE TorontoDay(server.at) < TorontoDay(now)
    /\ CronScan

NextTiling ==
    \/ AdvanceDay
    \/ DailyScan
    \/ CronSubs
    \/ CronSend

SpecTiling == InitTiling /\ [][NextTiling]_vars

-----------------------------------------------------------------------------
(* saveSubscription: the calls of the key validation, of enable-push and of *)
(* test-push of a device, each suspended on its delete and on its insert.   *)

\* The callers of saveSubscription in the client.
Callers == {"validate", "enable", "test"}

\* The ids the subscriptions table gives to its rows.
SubIds == {"s1", "s2", "s3"}

SavesOf(d) == { c \in inflight : c.dev = d }

\* saveSubscription is called: the delete of the rows of the device is sent.
saveSubscription(d, caller) ==
    /\ \A c \in inflight : ~(c.dev = d /\ c.caller = caller)
    /\ inflight' = inflight \cup {[dev |-> d, caller |-> caller, step |-> "delete"]}
    /\ UNCHANGED <<now, db, events, pc, pending, deleting, notifiedLog, alarms, server, subs,
                   other, console, call>>

\* The delete is answered; its error is not read.  The insert is sent.
SubscriptionDelete(c) ==
    /\ c \in inflight
    /\ c.step = "delete"
    /\ \E ok \in BOOLEAN :
          subs' = IF ok THEN { r \in subs : r.device_id # c.dev } ELSE subs
    /\ inflight' = (inflight \ {c}) \cup {[c EXCEPT !.step = "insert"]}
    /\ UNCHANGED <<now, db, events, pc, pending, deleting, notifiedLog, alarms, server, other,
                   console, call>>

\* The insert is answered: a new row of the device, or an error that is logged.
SubscriptionInsert(c, ok) ==
    /\ c \in inflight
    /\ c.step = "insert"
    /\ IF ok
       THEN /\ \E id \in SubIds \ { r.id : r \in subs } :
                  subs' = subs \cup {[id |-> id, device_id |-> c.dev]}
            /\ UNCHANGED console
       ELSE /\ console' = console \cup {"Failed to save subscription"}
            /\ UNCHANGED subs
    /\ inflight' = inflight \ {c}
    /\ UNCHANGED <<now, db, events, pc, pending, deleting, notifiedLog, alarms, server, other,
                   call>>

InitSubscribe ==
    /\ now = AnchorTs
    /\ db = SaveStore
    /\ events = [d \in Devices |-> [i \in Ids |-> None]]
    /\ pc = [d \in Devices |-> "unloaded"]
    /\ pending = [d \in Devices |-> [i \in Ids |-> None]]
    /\ deleting = [d \in Devices |-> {}]
    /\ inflight = {}
    /\ notifiedLog = [d \in Devices |-> {}]
    /\ console = {}
    /\ call = NoCalls
    /\ alarms = NoAlarms
    /\ server = NoPass
    /\ subs \in {NoSubs, OverlapSubs}
    /\ other = NoPass

NextSubscribe ==
    \/ \E d \in Devices : \E caller \in Callers : saveSubscription(d, caller)
    \/ \E c \in inflight : SubscriptionDelete(c)
    \/ \E c \in inflight : \E ok \in BOOLEAN : SubscriptionInsert(c, ok)

SpecSubscribe == InitSubscribe /\ [][NextSubscribe]_vars

-----------------------------------------------------------------------------
(* Properties.                                                              *)

\* The calls of shouldUpdateRecurringEvent that have returned.
DoneCalls == { call[i] : i \in { j \in Ids : call[j].phase = "done" } }

StartOf(c) == FromISO(c.event.startAt, c.event.timezone)

RuleOf(c) == c.event.recurrenceRule[1]

IsCustom(c) == c.event.recurrenceRule # None /\ RuleOf(c).type = "custom"

\* The stepping loop stopped at the cap with its candidate still before now.
Capped(c) == c.occ.via = "loop" /\ c.occ.iters = SafetyCap /\ c.occ.date < c.at

\* C1: every non-null result of shouldUpdateRecurringEvent is an instant not
\* earlier than the anchor of the event it was computed from.
C1_ForwardOnly ==
    \A c \in DoneCalls : c.update # None => c.update[1].ts >= StartOf(c).ts

\* C2: on an event to which a result has been applied, shouldUpdateRecurringEvent
\* returns null as long as the new anchor plus the grace minute has not elapsed.
C2_Idempotent ==
    \A c \in DoneCalls :
        (/\ c.event.nextAlertAt # None
         /\ c.at <= c.event.nextAlertAt[1].ts + BufferMinutes * MinuteSecs)
        => c.update = None

\* C3: shouldUpdateRecurringEvent returns null whenever the resolved occurrence
\* is the same instant as the anchor, whatever the text of the stored anchor.
C3_NoRedundantWrite ==
    \A c \in DoneCalls : c.occ.date = StartOf(c).ts => c.update = None

\* C4: the stored nextAlertAt of an event never decreases, whichever device
\* writes and however late its write is applied.
C4_StoredAnchorNeverDecreases ==
    [][\A i \in Ids :
          (db[i] # None /\ db'[i] # None /\ db[i][1].next_alert_at # None)
          => /\ db'[i][1].next_alert_at # None
             /\ db'[i][1].next_alert_at[1].ts >= db[i][1].next_alert_at[1].ts]_vars

\* C5: for a custom rule whose interval or unit is missing, or whose interval
\* is zero or negative, the resolved occurrence is the anchor.
C5_CustomFallback ==
    \A c \in DoneCalls :
        (/\ IsCustom(c)
         /\ \/ RuleOf(c).interval = None
            \/ RuleOf(c).unit = None
            \/ RuleOf(c).interval[1] <= 0)
        => c.occ.date = StartOf(c).ts

\* The anchor plus k periods of a rule: k periods in one addition, and for
\* months one period at a time.
PeriodTimes(dur, k) ==
    Dur(k * dur.years, k * dur.months, k * dur.weeks, k * dur.days, k * dur.hours)

RECURSIVE StepTimes(_, _, _)
StepTimes(dt, dur, k) == IF k = 0 THEN dt ELSE StepTimes(Plus(dt, dur), dur, k - 1)

KthOccurrence(start, rule, k) ==
    IF StepDur(rule).months # 0
    THEN StepTimes(start, StepDur(rule), k)
    ELSE Plus(start, PeriodTimes(StepDur(rule), k))

\* The rules C6 is about: the solar types, and custom with a positive interval
\* and a known unit.
IsStepRule(c) ==
    /\ c.event.recurrenceRule # None
    /\ \/ RuleOf(c).type \in {"daily", "weekly", "monthly", "yearly_solar"}
       \/ /\ RuleOf(c).type = "custom" /\ Truthy(RuleOf(c))
          /\ RuleOf(c).interval[1] > 0 /\ RuleOf(c).unit[1] \in Units

C7_Terminates ==
    \A c \in DoneCalls :
        /\ c.occ.iters <= SafetyCap
        /\ Capped(c) =>
             c.occ.date = KthOccurrence(StartOf(c), RuleOf(c), SafetyCap).ts

\* A call that ran into the cap with a period that moves the candidate.
C7_Witness ==
    \E c \in DoneCalls : Capped(c) /\ c.occ.date # StartOf(c).ts

\* C8: a call in which the stepping loop reached the cap leaves a logged
\* condition.
C8_SoftFailSignalled ==
    \A c \in DoneCalls : Capped(c) => console # {}

\* The occurrences of a lunar (month, day) at the anchor's time of day, in the
\* lunar years of the table.
LunarOccurrences(c) ==
    { LunarCandidate(CivilFromDays(LunarToSolar(y, RuleOf(c).lunarData[1].month,
                                                RuleOf(c).lunarData[1].day)),
                     Fields(StartOf(c)), c.event.timezone, c.at).ts :
        y \in { z \in DOMAIN LunarTable :
                  ~LunarThrows(z, RuleOf(c).lunarData[1].month,
                               RuleOf(c).lunarData[1].day) } }

IsLunar(c) ==
    /\ c.event.recurrenceRule # None
    /\ RuleOf(c).type = "yearly_lunar" /\ RuleOf(c).lunarData # None
    /\ StartOf(c).ts < c.at

\* C9: the occurrence resolved for a yearly_lunar rule is the earliest
\* occurrence of the lunar date at or after the reference instant.
C9_LunarEarliest ==
    \A c \in DoneCalls :
        (IsLunar(c) /\ c.occ.via = "lunar")
        => \A o \in LunarOccurrences(c) : o >= c.at => c.occ.date <= o

\* The trial years of a call, and the candidate of a trial year.
TrialYear(c, i) == Fields([ts |-> c.at, zone |-> c.event.timezone]).year + i

TrialThrows(c, i) ==
    LunarThrows(TrialYear(c, i), RuleOf(c).lunarData[1].month, RuleOf(c).lunarData[1].day)

TrialCandidate(c, i) ==
    LunarCandidate(CivilFromDays(LunarToSolar(TrialYear(c, i),
                                              RuleOf(c).lunarData[1].month,
                                              RuleOf(c).lunarData[1].day)),
                   Fields(StartOf(c)), c.event.timezone, c.at).ts

\* C10: a lunar date that does not exist in a trial year is skipped and the
\* next trial year is tried; when none of the three trial years has the date at
\* or after the reference, the anchor is returned unchanged.
C10_LunarErrorHandling ==
    \A c \in DoneCalls :
        IsLunar(c)
        => /\ (\A i \in 0 .. LunarTrials - 1 :
                  TrialThrows(c, i) \/ TrialCandidate(c, i) < c.at)
              => c.occ.date = StartOf(c).ts
           /\ \A j \in 0 .. LunarTrials - 1 :
                 (/\ ~TrialThrows(c, j) /\ TrialCandidate(c, j) > c.at
                  /\ \A i \in 0 .. j - 1 : TrialThrows(c, i))
                 => c.occ.date = TrialCandidate(c, j)

\* The date does not exist in the reference year and is found in the next one.
C10_Witness ==
    \E c \in DoneCalls :
        /\ IsLunar(c) /\ TrialThrows(c, 0) /\ ~TrialThrows(c, 1)
        /\ c.occ.via = "lunar" /\ c.occ.date = TrialCandidate(c, 1)

\* An event that carries the four inputs of the resolver and nothing else of
\* the record the call was made on.
InputsOnly(c) ==
    Event("x", c.event.startAt, c.event.timezone, c.event.recurrenceRule, <<>>)

PassRows(pass) ==
    { pass.rows[i][1] : i \in { j \in Ids : pass.rows[j] # None /\ pass.rows[j][1].device_id # "" } }

\* C12: a pass of the server job evaluates the reminders of every row with a
\* recipient and a stored next alert against the occurrence the client loop
\* resolves for the same record at the same instant (the next occurrence at or
\* after now).
C12_SameOccurrence ==
    server.phase # "none" =>
        \A row \in PassRows(server) :
            row.next_alert_at # None =>
                row.next_alert_at[1].ts = getNextOccurrence(mapFromDb(row), server.at).date

\* The instant at which the local day of a number begins in Toronto.
DayBegins(day) ==
    CHOOSE t \in { day * DaySecs - o : o \in { -4 * HourSecs, -5 * HourSecs } } :
        TorontoDay(t) = day /\ TorontoDay(t - 1) = day - 1

InTomorrow(alert, nowTs) ==
    /\ DayBegins(TorontoDay(nowTs) + 1) <= alert
    /\ alert < DayBegins(TorontoDay(nowTs) + 2)

\* C13: in a pass of the server job, entry k of the reminders of a row with a
\* recipient is matched if and only if next_alert_at minus that offset lies in
\* [start of tomorrow, start of the day after tomorrow) of the Toronto
\* calendar, tomorrow being relative to the instant of the pass.
C13_DigestWindow ==
    server.phase # "none" =>
        \A row \in PassRows(server) : \A k \in 1 .. Len(row.reminders) :
            [id |-> row.id, k |-> k] \in server.matched
                <=> /\ row.next_alert_at # None
                    /\ InTomorrow(row.next_alert_at[1].ts - row.reminders[k] * MinuteSecs,
                                  server.at)

\* A pass that matches an alert on the first instant of tomorrow and leaves
\* out another offset of the same row.
C13_Witness ==
    /\ server.phase # "none"
    /\ \E row \in PassRows(server) : \E k, n \in 1 .. Len(row.reminders) :
          /\ [id |-> row.id, k |-> k] \in server.matched
          /\ row.next_alert_at[1].ts - row.reminders[k] * MinuteSecs
                = DayBegins(TorontoDay(server.at) + 1)
          /\ [id |-> row.id, k |-> n] \notin server.matched

\* The events of the closure of a tick of a device.
Loaded(d) == { i \in Ids : events[d][i] # None }

Near(a, b) == a - b < NotifyWindowSecs /\ b - a < NotifyWindowSecs

Invoked(calls, i, k) == \E c \in calls : c.id = i /\ c.k = k

\* C14: in a pass of checkNotifications at instant now, the callback is
\* invoked for an offset m of an event whose occurrence is T if and only if
\* now is within 15 seconds of T - m; the other offsets of the event give no
\* callback in that pass.
C14_ReminderRoundTrip ==
    [][TickStart(NotifyDevice) =>
          \A i \in Loaded(NotifyDevice) :
              \A k \in 1 .. Len(events[NotifyDevice][i][1].reminders) :
                  Invoked(alarms'[NotifyDevice].last, i, k)
                      <=> Near(now, getNextOccurrence(events[NotifyDevice][i][1], now).date
                                      - events[NotifyDevice][i][1].reminders[k] * MinuteSecs)]_vars

\* A pass that invokes the callback for one offset of an event and not for
\* another offset of the same event.
C14_Witness ==
    \E c \in alarms[NotifyDevice].last :
        /\ events[NotifyDevice][c.id] # None
        /\ \E n \in 1 .. Len(events[NotifyDevice][c.id][1].reminders) :
               ~Invoked(alarms[NotifyDevice].last, c.id, n)

\* C15: a pass of checkNotifications reports an offset of an event once, also
\* when the reminders of the event hold that offset more than once.
C15_DuplicateOnce ==
    \A c1, c2 \in alarms[NotifyDevice].last :
        c1.id = c2.id /\ c1.minutesBefore = c2.minutesBefore => c1.k = c2.k

\* C16: over all the ticks of the client loop, a due reminder (event, entry
\* of its reminders, occurrence) raises the alarm at most once.
C16_NoDoubleDelivery ==
    \A r1, r2 \in alarms[NotifyDevice].raised :
        r1.id = r2.id /\ r1.k = r2.k /\ r1.occ = r2.occ => r1.at = r2.at

\* C17: a reminder that a pass of the client finds due has raised the alarm
\* by the end of that pass, at that tick or at an earlier one; no earlier
\* notification of the same event keeps it from being notified.
C17_AtLeastOnce ==
    \A c \in alarms[NotifyDevice].last :
        \E r \in alarms[NotifyDevice].raised :
            r.id = c.id /\ r.k = c.k /\ r.occ = c.occ

\* An event qualifies for expiry: its rule is none or absent and its next
\* alert plus the grace, in minutes, is strictly earlier than the reference.
Selected(rule, nextAlertAt, graceMinutes, reference) ==
    /\ rule = None \/ rule[1].type = "none"
    /\ nextAlertAt # None
    /\ nextAlertAt[1].ts + graceMinutes * MinuteSecs < reference

SelectedRows(rows, graceMinutes, reference) ==
    { i \in Ids : /\ rows[i] # None
                  /\ Selected(rows[i][1].recurrence_rule, rows[i][1].next_alert_at,
                              graceMinutes, reference) }

Recurring(rule) ==
    /\ rule # None
    /\ rule[1].type \in {"daily", "weekly", "monthly", "yearly_solar", "yearly_lunar", "custom"}

\* C19: no recurring event is placed in the deletion set of a client reaper
\* or of the server job, or deleted from the table, however far in the past
\* its anchor is.
C19_RecurringNeverExpires ==
    [][/\ \A i \in deleting'[LaterDevice] :
              ~Recurring(events[LaterDevice][i][1].recurrenceRule)
       /\ server'.phase # "none" =>
              \A i \in server'.eventsToDelete : ~Recurring(server'.rows[i][1].recurrence_rule)
       /\ \A i \in Ids :
              db[i] # None /\ db'[i] = None => ~Recurring(db[i][1].recurrence_rule)]_vars

\* Thirty days after the anchor the three reapers have passed over a table
\* that holds a recurring event: a one-time event is gone, the recurring one
\* is still there.
C19_Witness ==
    /\ now = AnchorTs + 30 * DaySecs + 61
    /\ server.phase = "done" /\ server.at = now
    /\ pc[NotifyDevice] = "idle"
    /\ \E i, j \in Ids :
          /\ db[i] # None /\ Recurring(db[i][1].recurrence_rule)
          /\ db[i][1].next_alert_at # None /\ db[i][1].next_alert_at[1].ts = AnchorTs
          /\ events[LaterDevice][i] # None
          /\ db[j] = None /\ events[LaterDevice][j] # None

\* C20: an event with rule none, or with no rule, is never advanced by
\* shouldUpdateRecurringEvent, and no event record, whatever the shape of its
\* rule, is advanced by one driver and put in the deletion set by another.
C20_RolloverExpiryExclusive ==
    /\ \A c \in DoneCalls : IsOneTime(c.event) => c.update = None
    /\ \A i \in Ids :
          ~ /\ call[i].phase = "done"
            /\ call[i].update # None
            /\ server.phase # "none"
            /\ i \in server.eventsToDelete
            /\ server.rows[i][1].recurrence_rule = call[i].event.recurrenceRule

\* The ids the reaper step of the tick in progress on device d has returned:
\* those the tick's closure holds and the local set has lost.
ReapedInTick(d) == { i \in Ids : pending[d][i] # None /\ events[d][i] = None }

\* C21: once a client tick has finished, its final state update included, the
\* local event set holds none of the ids its reaper step returned.
C21_DeletionsReflected ==
    [][\A d \in Devices :
          TickFinish(d) => \A i \in ReapedInTick(d) : events'[d][i] = None]_vars

\* C22: an id that is absent from the events table stays absent: a rollover
\* write for a deleted id, issued by a driver that still holds the record, does
\* not create the row again.
C22_NoResurrection ==
    [][\A i \in Ids : db[i] = None => db'[i] = None]_vars

\* The server has deleted a row, and a client that still holds the event has
\* issued, at a later tick, a rollover write for it that is yet to be answered.
C22_Witness ==
    /\ server.phase = "done"
    /\ \E w \in inflight :
          /\ w.event.id \in server.eventsToDelete
          /\ db[w.event.id] = None
          /\ events[w.dev][w.event.id] # None
          /\ call[w.event.id].phase = "done"
          /\ call[w.event.id].at > server.at

\* The labels of the matched reminders of a recipient in a pass of the server
\* job, in the order of the matches (rows, then entries), each label once.
RECURSIVE Distinct(_, _)
Distinct(seq, acc) ==
    IF seq = <<>> THEN acc
    ELSE Distinct(Tail(seq), IF Includes(acc, Head(seq)) THEN acc ELSE Append(acc, Head(seq)))

MatchLabel(pass, m) ==
    LabelOf(pass.rows[m.id][1].title, pass.rows[m.id][1].reminders[m.k],
            Fields([ts |-> pass.rows[m.id][1].next_alert_at[1].ts, zone |-> TIMEZONE_CA]))

RECURSIVE RowMatches(_, _, _, _)
RowMatches(pass, i, k, device) ==
    IF pass.rows[i] = None \/ pass.rows[i][1].device_id # device THEN <<>>
    ELSE IF k > Len(pass.rows[i][1].reminders) THEN <<>>
    ELSE (IF [id |-> i, k |-> k] \in pass.matched
          THEN <<MatchLabel(pass, [id |-> i, k |-> k])>> ELSE <<>>)
         \o RowMatches(pass, i, k + 1, device)

MatchedLabels(pass, device) ==
    Distinct(RowMatches(pass, "e1", 1, device) \o RowMatches(pass, "e2", 1, device), <<>>)

DigestAttempts ==
    IF server.phase = "none" THEN {}
    ELSE { n \in 1 .. Len(server.attempts) : server.kind = "digest" }

SmallerOf(a, b) == IF a < b THEN a ELSE b

\* C23: the message the server job sends for a recipient with n >= 1 distinct
\* matched labels states n, lists the first min(n, 4) labels in match order,
\* and ends with the overflow "...and n-4 more" if and only if n > 4; the
\* labels listed and the overflow add up to n.
C23_PayloadShape ==
    \A a \in DigestAttempts :
        LET msg == server.attempts[a].message
            labels == MatchedLabels(server, server.attempts[a].device)
            n == Len(labels)
        IN  /\ n >= 1
            /\ msg.count = n
            /\ msg.lines = SubSeq(labels, 1, SmallerOf(n, 4))
            /\ (msg.more # None) <=> n > 4
            /\ msg.more # None => msg.more[1] = n - 4
            /\ Len(msg.lines) + (IF msg.more = None THEN 0 ELSE msg.more[1]) = n

\* The server job has sent a message of six labels: four are listed, two are
\* left to the overflow line.
C23_Witness ==
    /\ server.phase = "done"
    /\ server.kind = "digest"
    /\ \E a \in 1 .. Len(server.attempts) :
          /\ server.attempts[a].message.more = Some(2)
          /\ Len(server.attempts[a].message.lines) = 4

\* C24: in a pass of the server job every matched reminder is in the group of
\* the recipient of its event and in no other group, an event without a
\* recipient is in no group, and no label occurs twice in a group.
C24_Grouping ==
    server.phase # "none" /\ server.kind = "digest" =>
        /\ \A d \in Devices :
              /\ Range(server.deviceAlerts[d])
                    = { MatchLabel(server, m) :
                          m \in { x \in server.matched : server.rows[x.id][1].device_id = d } }
              /\ \A a, b \in 1 .. Len(server.deviceAlerts[d]) :
                    server.deviceAlerts[d][a] = server.deviceAlerts[d][b] => a = b
        /\ \A m \in server.matched : server.rows[m.id][1].device_id \in Devices

\* A pass with two recipients, in which two matches of one event have the
\* same label.
C24_Witness ==
    /\ server.phase # "none" /\ server.kind = "digest"
    /\ \A d \in Devices : server.deviceAlerts[d] # <<>>
    /\ \E m1, m2 \in server.matched :
          m1.id = m2.id /\ m1.k # m2.k /\ MatchLabel(server, m1) = MatchLabel(server, m2)

\* The send attempts of the pass of a handler that has answered.
PassAttempts ==
    IF server.phase = "done" THEN { server.attempts[n] : n \in 1 .. Len(server.attempts) }
    ELSE {}

Terminal(status) == status \in {410, 404, 403}

\* C25: after a pass of a sending handler, every subscription whose send
\* failed with 410, 404 or 403 has been removed from the subscriptions table,
\* and no subscription whose send succeeded or failed otherwise has been.
C25_TerminalInvalidates ==
    \A a \in PassAttempts :
        Terminal(a.status) <=> [id |-> a.sub, device_id |-> a.device] \notin subs

\* The send attempts of a pass to a subscription of a recipient.
AttemptsTo(x, d) ==
    { n \in 1 .. Len(server.attempts) :
        server.attempts[n].sub = x /\ server.attempts[n].device = d }

WriteFailed == "Error updating event" \in console

Advanced(i) == call[i].phase = "done" /\ call[i].update # None

Held(i) ==
    /\ db[i] # None
    /\ Advanced(i)
    /\ db[i][1].next_alert_at = Some(Timestamptz(call[i].update[1]))

\* C27: when the write of an advanced anchor has failed, later passes of the
\* client issue the write again, and the table comes to hold the advanced
\* anchor, provided the loop keeps running and writes succeed in the end.
C27_FailedWriteRetried ==
    \A i \in Ids : (WriteFailed /\ Advanced(i) /\ db[i] # None) ~> Held(i)

\* The table holds the advanced anchor after a write of it has failed.
C27_Witness ==
    /\ WriteFailed
    /\ \E i \in Ids : Held(i)

\* A read of the events table by a client fails in this step.
ReadFails(d) == LoadFails(d) \/ RefreshRead(d, FALSE)

\* A pass of the server job whose select failed.
FailedPass == server.phase # "none" /\ server.kind = "digest" /\ ~server.read

\* C28: a step in which a client's read of the events table fails (the load,
\* or the refresh after a scan of the server job) leaves the events the client
\* holds as they were and issues no write and no delete; a pass of the server
\* job whose select failed deletes nothing and notifies nobody.
C28_FailedReadUntouched ==
    /\ [][\A d \in Devices :
             ReadFails(d) => /\ events'[d] = events[d]
                             /\ inflight' = inflight
                             /\ db' = db]_vars
    /\ [](FailedPass => /\ server.eventsToDelete = {}
                        /\ server.matched = {}
                        /\ server.attempts = <<>>
                        /\ server.phase = "done")

\* The rule of the event is none the form produces.
Malformed(event) ==
    /\ event.recurrenceRule # None
    /\ \E rule \in {event.recurrenceRule[1]} :
          \/ rule.type \notin {"none", "daily", "weekly", "monthly", "yearly_solar",
                               "yearly_lunar", "custom"}
          \/ rule.type = "yearly_lunar" /\ rule.lunarData = None
          \/ rule.type = "custom" /\ (rule.interval = None \/ rule.unit = None)
          \/ rule.type = "custom" /\ rule.interval # None /\ rule.interval[1] <= 0
          \/ rule.type = "custom" /\ rule.unit # None /\ rule.unit[1] \notin Units

\* C29: a pass of the client over events with malformed rules leaves the
\* nextAlertAt of every malformed event at its previous value, in the state of
\* the client and in the table.
C29_MalformedFrozen ==
    [][/\ \A d \in Devices : \A i \in Ids :
             (events[d][i] # None /\ events'[d][i] # None /\ Malformed(events[d][i][1]))
                 => events'[d][i][1].nextAlertAt = events[d][i][1].nextAlertAt
       /\ \A i \in Ids :
             (db[i] # None /\ db'[i] # None /\ Malformed(mapFromDb(db[i][1])))
                 => db'[i][1].next_alert_at = db[i][1].next_alert_at]_vars

\* The two runs of the job, and the runs that have read the table.
Runs == {server, other}

ReadRuns == { r \in Runs : r.phase # "none" /\ r.read }

\* Both runs have answered and no delete request has failed.
BothDone ==
    /\ server.phase = "done"
    /\ other.phase = "done"
    /\ "Deletion failed" \notin console

\* C30: whatever the interleaving of two runs of the server job, a run that has
\* started can take its next step until it answers; once both have answered,
\* the table is the table either run has read without the rows that are
\* expired: every row a run selected is gone (a second delete of it changes
\* nothing), every row left is as it was read, and every row gone is an
\* expired one.
C30_OverlapTolerated ==
    /\ \A r \in Runs : r.phase = "sending" => (r.queue # <<>> \/ r.targets # <<>>)
    /\ BothDone =>
          \A r \in ReadRuns :
              /\ \A i \in r.eventsToDelete : db[i] = None
              /\ \A i \in Ids : db[i] # None => db[i] = r.rows[i]
              /\ \A i \in Ids :
                    (r.rows[i] # None /\ db[i] = None)
                        => RowExpired(r.rows[i][1], now)

\* Both runs have selected the same row, and both have answered.
C30_Witness ==
    /\ BothDone
    /\ ReadRuns = Runs
    /\ server.eventsToDelete \cap other.eventsToDelete # {}
    /\ server.attempts # <<>>
    /\ other.attempts # <<>>

\* The columns of a row other than next_alert_at and updated_at.
FrameOf(row) ==
    [id |-> row.id, title |-> row.title, start_at |-> row.start_at.ts,
     timezone |-> row.timezone, recurrence_rule |-> row.recurrence_rule,
     reminders |-> row.reminders, device_id |-> row.device_id]

\* C31: a rollover write that reaches the row changes next_alert_at and
\* updated_at only, and when it changes next_alert_at it changes updated_at.
C31_RolloverFrame ==
    [][\A w \in inflight :
          (updateEvent(w) /\ db[w.event.id] # None)
              => /\ FrameOf(db'[w.event.id][1]) = FrameOf(db[w.event.id][1])
                 /\ db'[w.event.id][1].next_alert_at # db[w.event.id][1].next_alert_at
                       => db'[w.event.id][1].updated_at # db[w.event.id][1].updated_at]_vars

\* The local hour and minute of an instant in a zone.
WallClock(ts, zone) ==
    <<Fields([ts |-> ts, zone |-> zone]).hour, Fields([ts |-> ts, zone |-> zone]).minute>>

IsPeriodRule(c) ==
    /\ c.event.recurrenceRule # None
    /\ RuleOf(c).type \in {"daily", "weekly", "monthly", "yearly_solar"}

\* C32: for daily, weekly, monthly and yearly_solar rules, the occurrence the
\* resolver returns has the local hour and minute of the anchor in the zone of
\* the event.
C32_WallClockKept ==
    \A c \in DoneCalls :
        IsPeriodRule(c)
            => WallClock(c.occ.date, c.event.timezone)
                   = WallClock(StartOf(c).ts, c.event.timezone)

\* The local calendar fields of the anchor and of the occurrence of a call.
AnchorFields(c) == Fields(StartOf(c))

OccFields(c) == Fields([ts |-> c.occ.date, zone |-> c.event.timezone])

IsMonthRule(c) ==
    /\ c.event.recurrenceRule # None
    /\ \/ RuleOf(c).type = "monthly"
       \/ /\ RuleOf(c).type = "custom"
          /\ Truthy(RuleOf(c))
          /\ RuleOf(c).unit[1] = "month"

\* C38: for a monthly rule or a custom rule in months, the occurrence the
\* resolver returns falls on the anchor's day of month whenever the month of
\* the occurrence has that day.
C38_DayOfMonthKept ==
    \A c \in DoneCalls :
        (IsMonthRule(c)
         /\ DaysInMonth(OccFields(c).year, OccFields(c).month) >= AnchorFields(c).day)
            => OccFields(c).day = AnchorFields(c).day

\* The last call on the event stopped at the cap with its candidate before now.
CappedCall(i) == call[i].phase = "done" /\ Capped(call[i])

\* The row of the event holds a next alert that is not before now.
CaughtUp(i) ==
    /\ db[i] # None
    /\ db[i][1].next_alert_at # None
    /\ db[i][1].next_alert_at[1].ts >= now

\* C33: for an event whose resolution stops at the cap, every rollover write
\* that reaches the row moves the stored next alert strictly forward, and the
\* passes of the client bring it up to now.
C33_CatchUp ==
    /\ [][\A w \in inflight :
             (updateEvent(w) /\ db[w.event.id] # None /\ CappedCall(w.event.id))
                 => \/ db[w.event.id][1].next_alert_at = None
                    \/ db'[w.event.id][1].next_alert_at[1].ts
                           > db[w.event.id][1].next_alert_at[1].ts]_vars
    /\ \A i \in Ids : CappedCall(i) ~> CaughtUp(i)

\* The values of an event the user enters in the form.
UserValues(event) ==
    [title |-> event.title, startAt |-> event.startAt, timezone |-> event.timezone,
     recurrenceRule |-> event.recurrenceRule, reminders |-> event.reminders]

\* The events the local set holds with values the tick in progress on device d
\* has not seen: created or edited after the tick took its snapshot.
SavedInTick(d) ==
    { i \in Ids : /\ events[d][i] # None
                  /\ \/ pending[d][i] = None
                     \/ UserValues(pending[d][i][1]) # UserValues(events[d][i][1]) }

\* C34: when a tick finishes, the local set still holds every event the user
\* created or edited while the tick was suspended, with the user's values.
C34_SavedEventKept ==
    [][\A d \in Devices :
          TickFinish(d) =>
              \A i \in SavedInTick(d) :
                  /\ events'[d][i] # None
                  /\ UserValues(events'[d][i][1]) = UserValues(events[d][i][1])]_vars

\* The reminders of an event the matcher of the client takes at the instant.
ClientDue(event, id, nowTs) ==
    NotifyCalls(id, event, nowTs, getNextOccurrence(event, nowTs).date)

\* The reminders of a row whose alert lies in the window of the server job.
ServerDue(row, nowTs) ==
    { k \in 1 .. Len(row.reminders) :
        /\ row.next_alert_at # None
        /\ row.next_alert_at[1].ts - row.reminders[k] * MinuteSecs >= TargetStart(nowTs)
        /\ row.next_alert_at[1].ts - row.reminders[k] * MinuteSecs <= TargetEnd(nowTs) }

\* C35: at every instant, an event the cleanup of the client, the reaper of
\* the later storage module or the server job selects for deletion has no
\* reminder in the window of the matcher of that driver.
C35_ExpiryKeepsDue ==
    /\ \A d \in Devices : \A i \in ExpiredIds(events[d], now) :
           ClientDue(events[d][i][1], i, now) = {}
    /\ \A i \in ReaperIds(events[LaterDevice], now) :
           ClientDue(events[LaterDevice][i][1], i, now) = {}
    /\ \A i \in Ids : db[i] # None /\ RowExpired(db[i][1], now) => ServerDue(db[i][1], now) = {}

\* The three drivers have each selected an event for deletion, with reminders
\* of the event behind it.
C35_Witness ==
    /\ deleting[NotifyDevice] # {}
    /\ deleting[LaterDevice] # {}
    /\ server.phase = "deleting"
    /\ \E i \in deleting[LaterDevice] :
           pending[NotifyDevice][i] # None /\ Len(pending[NotifyDevice][i][1].reminders) > 1

\* The instant of entry k of the reminders of a row.
AlertAt(row, k) == row.next_alert_at[1].ts - row.reminders[k] * MinuteSecs

\* The local days of the runs from which the window of the job holds the
\* instant: from some run of the day, and from every run of the day.
DaysHolding(alert) ==
    { TorontoDay(t) : t \in { u \in TilingRuns : TargetStart(u) <= alert /\ alert <= TargetEnd(u) } }

DaysHoldingAlways(alert) ==
    { TorontoDay(t) : t \in TilingRuns }
        \ { TorontoDay(t) : t \in { u \in TilingRuns : ~(TargetStart(u) <= alert /\ alert <= TargetEnd(u)) } }

\* C36: the alert of every reminder of a row with a recipient lies in the
\* window of the runs of exactly one Toronto calendar day, the same for every
\* instant of the day, and a run matches the reminder if and only if it runs
\* on that day, the day before the local day of the alert.
C36_WindowsTile ==
    /\ \A i \in Ids : db[i] # None =>
          \A k \in 1 .. Len(db[i][1].reminders) :
              \E day \in {TorontoDay(AlertAt(db[i][1], k)) - 1} :
                  /\ DaysHolding(AlertAt(db[i][1], k)) = {day}
                  /\ DaysHoldingAlways(AlertAt(db[i][1], k)) = {day}
    /\ server.phase # "none" =>
          \A row \in PassRows(server) : \A k \in 1 .. Len(row.reminders) :
              [id |-> row.id, k |-> k] \in server.matched
                  <=> TorontoDay(AlertAt(row, k)) = TorontoDay(server.at) + 1

\* The run before the short day has matched an alert on the last second of
\* that day and has left out the alert of the same row on the day of the run.
C36_Witness ==
    /\ server.phase = "done"
    /\ TorontoDay(server.at) + 1 = TorontoDay(At(2024, 3, 10, 12, 0, 0, TIMEZONE_CA).ts)
    /\ \E row \in PassRows(server) : \E k, n \in 1 .. Len(row.reminders) :
          /\ [id |-> row.id, k |-> k] \in server.matched
          /\ AlertAt(row, k) = At(2024, 3, 10, 23, 59, 59, TIMEZONE_CA).ts
          /\ TorontoDay(AlertAt(row, n)) = TorontoDay(server.at)
          /\ [id |-> row.id, k |-> n] \notin server.matched

RowsOf(d) == { r \in subs : r.device_id = d }

\* C37: once no call of saveSubscription of a device is suspended, the
\* subscriptions table holds at most one row of the device, and it holds
\* exactly one after the insert of the last call has succeeded.
C37_OneSubscription ==
    /\ [](\A d \in Devices : SavesOf(d) = {} => Cardinality(RowsOf(d)) <= 1)
    /\ [][\A c \in inflight :
             SubscriptionInsert(c, TRUE) /\ inflight' = {} =>
                 Cardinality({ r \in subs' : r.device_id = c.dev }) = 1]_vars

=============================================================================
